---- MODULE Spec2Model ----


(***************************************************************************)
(* Model of brix's dbt configuration editing core:                         *)
(*   - the document model of dbt_project.yml and packages.yml              *)
(*     (brix/modules/dbt/project/models.py),                               *)
(*   - the editor and persistence functions                               *)
(*     (brix/modules/dbt/project/editor.py),                               *)
(*   - the interactive project and profile editors                         *)
(*     (brix/modules/dbt/project/prompts.py, profile/prompts.py),          *)
(*   - project discovery (brix/modules/dbt/project/finder.py),             *)
(* and of the token manager of databricks_dbt_cli                          *)
(*     (modules/token/manager.py, modules/token/storage.py,                *)
(*      modules/auth/databricks.py).                                       *)
(*                                                                         *)
(* Values.  An optional Python value is a sequence of length at most one:  *)
(* None is <<>> and a present value x is <<x>>.  A project name is a       *)
(* sequence of characters, so that the naming pattern is evaluated on it;  *)
(* all other strings are atoms.  A YAML text is modelled by what           *)
(* yaml.safe_load makes of it: a mapping from on-disk keys to values, a    *)
(* non-mapping value, an empty document, or a text that is no YAML.        *)
(***************************************************************************)
EXTENDS Integers, Sequences, FiniteSets, TLC

VARIABLES
    project,        \* the in-memory DbtProject
    projectFile,    \* dbt_project.yml: <<>> when absent, <<text>> otherwise
    packages,       \* the in-memory DbtPackages.packages list
    packagesFile,   \* packages.yml: <<>> when absent, <<text>> otherwise
    dirExists,      \* whether the project directory exists
    last,           \* the last call made: operation, arguments, outcome
    kept,           \* what a caller sees through a reference it kept to the
                    \* object it passed to the last editor call
    tokenFiles,     \* the token metadata files: token variable -> content
    environ,        \* os.environ: variable name -> value
    now,            \* the clock, in hours
    call,           \* the running call of the token manager
    tasks,          \* the refresh_token coroutines of the running call
    outcome,        \* what the last call of the token manager gave back
    profiles,       \* the profiles of the interactive profile editor:
                    \* profile name -> [target, outputs]
    tree,           \* the directories on disk that hold a dbt_project.yml
    found           \* what the last call of find_dbt_projects returned

editorVars == <<project, projectFile, packages, packagesFile, dirExists, last>>
tokenVars == <<tokenFiles, environ, now, call, tasks, outcome>>
moreVars == <<profiles, tree, found>>
vars == <<editorVars, kept, tokenVars, moreVars>>

None == <<>>
Some(x) == <<x>>
IsNone(o) == Len(o) = 0

\* The largest list a caller passes to update_path_field(..., "set", list).
MaxSetLen == 2

(***************************************************************************)
(* Project names and the naming pattern                                    *)
(***************************************************************************)
Letters ==
    {"a","b","c","d","e","f","g","h","i","j","k","l","m","n","o","p","q","r",
     "s","t","u","v","w","x","y","z","A","B","C","D","E","F","G","H","I","J",
     "K","L","M","N","O","P","Q","R","S","T","U","V","W","X","Y","Z"}
Digits == {"0","1","2","3","4","5","6","7","8","9"}
HeadChars == Letters \cup {"_"}
BodyChars == Letters \cup Digits \cup {"_"}

\* [a-zA-Z_][a-zA-Z0-9_]* over the whole of s.
FullMatch(s) ==
    /\ Len(s) > 0
    /\ s[1] \in HeadChars
    /\ \A i \in 2..Len(s) : s[i] \in BodyChars

\* PROJECT_NAME_PATTERN.match(name): Python's "$" (no MULTILINE flag) matches
\* at the end of the string and also just before a newline that ends it.
PROJECT_NAME_PATTERN_match(s) ==
    \/ FullMatch(s)
    \/ /\ Len(s) > 0
       /\ s[Len(s)] = "\n"
       /\ FullMatch(SubSeq(s, 1, Len(s) - 1))

\* validate_project_name(name): TRUE when it returns, FALSE when it raises
\* ProjectNameError.
validate_project_name(name) == PROJECT_NAME_PATTERN_match(name)

(***************************************************************************)
(* DbtProject, from_yaml and to_yaml                                       *)
(***************************************************************************)
EDITABLE_FIELDS == {"name", "profile", "version", "require_dbt_version"}

PATH_FIELDS ==
    {"model_paths", "seed_paths", "test_paths", "macro_paths",
     "snapshot_paths", "analysis_paths", "asset_paths", "clean_targets"}

\* The optional free-form maps, kept opaquely.
MAP_FIELDS == {"models", "seeds", "vars"}

\* Field(alias=...): the on-disk key of an in-memory field.
Alias(f) ==
    CASE f = "config_version" -> "config-version"
      [] f = "model_paths" -> "model-paths"
      [] f = "seed_paths" -> "seed-paths"
      [] f = "test_paths" -> "test-paths"
      [] f = "macro_paths" -> "macro-paths"
      [] f = "snapshot_paths" -> "snapshot-paths"
      [] f = "analysis_paths" -> "analysis-paths"
      [] f = "asset_paths" -> "asset-paths"
      [] f = "clean_targets" -> "clean-targets"
      [] f = "require_dbt_version" -> "require-dbt-version"
      [] OTHER -> f

\* Field(default=...) of the path-list fields.
PathDefault(f) ==
    CASE f = "model_paths" -> <<"models">>
      [] f = "seed_paths" -> <<"seeds">>
      [] f = "test_paths" -> <<"tests">>
      [] f = "macro_paths" -> <<"macros">>
      [] f = "snapshot_paths" -> <<"snapshots">>
      [] f = "analysis_paths" -> <<"analyses">>
      [] f = "asset_paths" -> <<"assets">>
      [] f = "clean_targets" -> <<"target", "dbt_packages">>

DEFAULT_VERSION == "1.0.0"

\* The declared fields of DbtProject.
ProjectFields ==
    {"name", "profile", "version", "config_version", "require_dbt_version"}
        \cup PATH_FIELDS \cup MAP_FIELDS

\* The on-disk keys of the declared fields.
ProjectKeys == {Alias(f) : f \in ProjectFields}

\* The texts of a file, as yaml.safe_load sees them.
InvalidYaml == [kind |-> "invalid_yaml"]
EmptyYaml == [kind |-> "empty"]
ScalarYaml == [kind |-> "scalar"]
Mapping(d) == [kind |-> "mapping", data |-> d]

\* A value standing for "no document" in a failed result.
NoDoc == [name |-> None]

\* The fields a dump leaves out: those whose value is None (exclude_none).
DumpedFields(p) ==
    {f \in ProjectFields :
        IF f \in {"name", "profile", "version", "require_dbt_version"} \cup MAP_FIELDS
        THEN ~IsNone(p[f])
        ELSE TRUE}

\* DbtProject.to_yaml: model_dump(exclude_none=True, by_alias=True), dumped.
\* Extra keys (extra="allow") are written under their own names.
to_yaml(p) ==
    LET fs == DumpedFields(p)
        keys == {Alias(f) : f \in fs} \cup DOMAIN p.extra
    IN Mapping([k \in keys |->
           IF k \in DOMAIN p.extra THEN p.extra[k]
           ELSE LET f == CHOOSE g \in fs : Alias(g) = k IN p[f]])

\* Field validation of cls(**data) for the mapping d: every declared key that
\* is present holds a value of its type, the required keys are present, and
\* the name passes validate_name.
ValidData(d) ==
    /\ "name" \in DOMAIN d /\ ~IsNone(d["name"])
    /\ validate_project_name(d["name"][1])
    /\ "profile" \in DOMAIN d /\ ~IsNone(d["profile"])
    /\ "version" \in DOMAIN d => ~IsNone(d["version"])
    /\ "config-version" \in DOMAIN d => d["config-version"] = 2

\* The value of declared field f built from mapping d: the key's value, or
\* the field's default when the key is missing.
FieldFrom(d, f) ==
    IF Alias(f) \in DOMAIN d THEN d[Alias(f)]
    ELSE CASE f = "version" -> Some(DEFAULT_VERSION)
           [] f = "config_version" -> 2
           [] f \in PATH_FIELDS -> PathDefault(f)
           [] OTHER -> None

\* DbtProject.from_yaml(content): [err, doc].
from_yaml(text) ==
    IF text.kind = "invalid_yaml" THEN [err |-> "ValueError", doc |-> NoDoc]
    ELSE IF text.kind # "mapping" THEN [err |-> "ValueError", doc |-> NoDoc]
    ELSE IF ~ValidData(text.data) THEN [err |-> "ValueError", doc |-> NoDoc]
    ELSE LET d == text.data
             ex == DOMAIN d \ ProjectKeys
         IN [err |-> "ok",
             doc |-> [f \in ProjectFields \cup {"extra"} |->
                        IF f = "extra" THEN [k \in ex |-> d[k]]
                        ELSE FieldFrom(d, f)]]

\* DbtProject.from_file(path) on a file holding text.
from_file(text) == from_yaml(text)

(***************************************************************************)
(* Editor: project fields                                                  *)
(***************************************************************************)
\* field.replace("-", "_") on the field names callers pass.
replace_dash(f) ==
    CASE f = "require-dbt-version" -> "require_dbt_version"
      [] f = "config-version" -> "config_version"
      [] f = "model-paths" -> "model_paths"
      [] f = "seed-paths" -> "seed_paths"
      [] f = "test-paths" -> "test_paths"
      [] f = "macro-paths" -> "macro_paths"
      [] f = "snapshot-paths" -> "snapshot_paths"
      [] f = "analysis-paths" -> "analysis_paths"
      [] f = "asset-paths" -> "asset_paths"
      [] f = "clean-targets" -> "clean_targets"
      [] f = "invalid-field" -> "invalid_field"
      [] OTHER -> f

\* update_project_field with the allow-list test made on the field name as
\* the caller spelled it.
update_project_field_no_normalise(p, field, value) ==
    IF field \notin EDITABLE_FIELDS
    THEN [err |-> "InvalidFieldError", doc |-> p]
    ELSE IF field = "name" /\ ~IsNone(value) /\ ~validate_project_name(value[1])
    THEN [err |-> "ProjectNameError", doc |-> p]
    ELSE [err |-> "ok", doc |-> [p EXCEPT ![field] = value]]

\* update_project_field(project, field, value): [err, doc]; doc is the
\* project object after the call.
update_project_field(p, field, value) ==
    LET f == replace_dash(field) IN
    IF f \notin EDITABLE_FIELDS
    THEN [err |-> "InvalidFieldError", doc |-> p]
    ELSE IF f = "name" /\ ~IsNone(value) /\ ~validate_project_name(value[1])
    THEN [err |-> "ProjectNameError", doc |-> p]
    ELSE [err |-> "ok", doc |-> [p EXCEPT ![f] = value]]

\* A str argument and a list[str] argument of update_path_field.
Str(s) == [t |-> "str", v |-> s]
Lst(l) == [t |-> "list", v |-> l]

InList(v, l) == \E i \in 1..Len(l) : l[i] = v

\* A removal that drops every occurrence of v.
ListRemoveAll(l, v) == SelectSeq(l, LAMBDA x : x # v)

\* list.remove(v): the list without the first occurrence of v.
ListRemove(l, v) ==
    LET i == CHOOSE j \in 1..Len(l) :
                 l[j] = v /\ \A k \in 1..(j - 1) : l[k] # v
    IN SubSeq(l, 1, i - 1) \o SubSeq(l, i + 1, Len(l))

\* update_path_field whose "add" appends without looking for the path.
update_path_field_always_append(p, field, action, value) ==
    LET f == replace_dash(field) IN
    IF f \notin PATH_FIELDS
    THEN [err |-> "InvalidFieldError", doc |-> p]
    ELSE
    LET current_paths == p[f] IN
    CASE action = "add" ->
           IF value.t = "list" /\ Len(value.v) = 0
           THEN [err |-> "IndexError", doc |-> p]
           ELSE LET path_to_add == IF value.t = "str" THEN value.v ELSE value.v[1]
                IN [err |-> "ok",
                    doc |-> [p EXCEPT ![f] = Append(current_paths, path_to_add)]]
      [] action = "remove" ->
           IF value.t = "list" /\ Len(value.v) = 0
           THEN [err |-> "IndexError", doc |-> p]
           ELSE LET path_to_remove == IF value.t = "str" THEN value.v ELSE value.v[1]
                IN IF ~InList(path_to_remove, current_paths)
                   THEN [err |-> "ValueError", doc |-> p]
                   ELSE [err |-> "ok",
                         doc |-> [p EXCEPT ![f] = ListRemove(current_paths, path_to_remove)]]
      [] action = "set" ->
           [err |-> "ok",
            doc |-> [p EXCEPT ![f] = IF value.t = "list" THEN value.v ELSE <<value.v>>]]
      [] OTHER -> [err |-> "ValueError", doc |-> p]

\* update_path_field(project, field, action, value): [err, doc].
update_path_field(p, field, action, value) ==
    LET f == replace_dash(field) IN
    IF f \notin PATH_FIELDS
    THEN [err |-> "InvalidFieldError", doc |-> p]
    ELSE
    LET current_paths == p[f] IN
    CASE action = "add" ->
           IF value.t = "list" /\ Len(value.v) = 0
           THEN [err |-> "IndexError", doc |-> p]
           ELSE LET path_to_add == IF value.t = "str" THEN value.v ELSE value.v[1]
                IN [err |-> "ok",
                    doc |-> IF InList(path_to_add, current_paths) THEN p
                            ELSE [p EXCEPT ![f] = Append(current_paths, path_to_add)]]
      [] action = "remove" ->
           IF value.t = "list" /\ Len(value.v) = 0
           THEN [err |-> "IndexError", doc |-> p]
           ELSE LET path_to_remove == IF value.t = "str" THEN value.v ELSE value.v[1]
                IN IF ~InList(path_to_remove, current_paths)
                   THEN [err |-> "ValueError", doc |-> p]
                   ELSE [err |-> "ok",
                         doc |-> [p EXCEPT ![f] = ListRemove(current_paths, path_to_remove)]]
      [] action = "set" ->
           [err |-> "ok",
            doc |-> [p EXCEPT ![f] = IF value.t = "list" THEN value.v ELSE <<value.v>>]]
      [] OTHER -> [err |-> "ValueError", doc |-> p]

(***************************************************************************)
(* DbtPackages, from_yaml and to_yaml                                      *)
(***************************************************************************)
HubPackage(package, version) ==
    [type |-> "hub", package |-> package, version |-> version]
GitPackage(git, revision, subdirectory) ==
    [type |-> "git", git |-> git, revision |-> revision, subdirectory |-> subdirectory]
LocalPackage(local) == [type |-> "local", local |-> local]

\* A dump that writes only the required fields of a package.
DumpPackage_required_only(pkg) ==
    CASE pkg.type = "hub" ->
           [k \in {"package", "version"} |->
               IF k = "package" THEN Some(pkg.package) ELSE Some(pkg.version)]
      [] pkg.type = "git" ->
           [k \in {"git", "revision"} |->
               IF k = "git" THEN Some(pkg.git) ELSE Some(pkg.revision)]
      [] OTHER -> [k \in {"local"} |-> Some(pkg.local)]

\* model_dump(exclude_none=True) of one package: its fields by key, the
\* None-valued subdirectory left out.
DumpPackage(pkg) ==
    CASE pkg.type = "hub" ->
           [k \in {"package", "version"} |->
               IF k = "package" THEN Some(pkg.package) ELSE Some(pkg.version)]
      [] pkg.type = "git" ->
           [k \in {"git", "revision"} \cup
                  (IF IsNone(pkg.subdirectory) THEN {} ELSE {"subdirectory"}) |->
               CASE k = "git" -> Some(pkg.git)
                 [] k = "revision" -> Some(pkg.revision)
                 [] OTHER -> pkg.subdirectory]
      [] OTHER -> [k \in {"local"} |-> Some(pkg.local)]

\* DbtPackages.to_yaml.
packages_to_yaml(pkgs) ==
    Mapping([k \in {"packages"} |-> [i \in 1..Len(pkgs) |-> DumpPackage(pkgs[i])]])

\* Validation of one item of the packages list against HubPackage, GitPackage
\* and LocalPackage (each extra="forbid"): the variant it validates as, or
\* "none".
ItemVariant(item) ==
    LET ks == DOMAIN item IN
    IF ks = {"package", "version"}
          /\ ~IsNone(item["package"]) /\ ~IsNone(item["version"])
    THEN "hub"
    ELSE IF {"git", "revision"} \subseteq ks
          /\ ks \subseteq {"git", "revision", "subdirectory"}
          /\ ~IsNone(item["git"]) /\ ~IsNone(item["revision"])
    THEN "git"
    ELSE IF ks = {"local"} /\ ~IsNone(item["local"])
    THEN "local"
    ELSE "none"

\* The package built from a validated item.
ItemPackage(item) ==
    CASE ItemVariant(item) = "hub" ->
           HubPackage(item["package"][1], item["version"][1])
      [] ItemVariant(item) = "git" ->
           GitPackage(item["git"][1], item["revision"][1],
                      IF "subdirectory" \in DOMAIN item THEN item["subdirectory"]
                      ELSE None)
      [] OTHER -> LocalPackage(item["local"][1])

\* DbtPackages.from_yaml(content): [err, pkgs].
packages_from_yaml(text) ==
    IF text.kind = "invalid_yaml" THEN [err |-> "ValueError", pkgs |-> <<>>]
    ELSE IF text.kind = "empty" THEN [err |-> "ok", pkgs |-> <<>>]
    ELSE IF text.kind # "mapping" THEN [err |-> "ValueError", pkgs |-> <<>>]
    ELSE LET d == text.data IN
         IF ~(DOMAIN d \subseteq {"packages"}) THEN [err |-> "ValueError", pkgs |-> <<>>]
         ELSE IF "packages" \notin DOMAIN d THEN [err |-> "ok", pkgs |-> <<>>]
         ELSE LET items == d["packages"] IN
              IF \E i \in 1..Len(items) : ItemVariant(items[i]) = "none"
              THEN [err |-> "ValueError", pkgs |-> <<>>]
              ELSE [err |-> "ok",
                    pkgs |-> [i \in 1..Len(items) |-> ItemPackage(items[i])]]

(***************************************************************************)
(* Editor: packages                                                        *)
(***************************************************************************)
\* _get_package_identifier(pkg).
get_package_identifier(pkg) ==
    IF pkg.type = "hub" THEN pkg.package
    ELSE IF pkg.type = "git" THEN pkg.git
    ELSE pkg.local

\* find_package_index that looks at the first package only.
find_package_index_first_only(pkgs, identifier) ==
    IF Len(pkgs) > 0 /\ get_package_identifier(pkgs[1]) = identifier THEN 1 ELSE 0

\* find_package_index(packages, identifier): the first index whose package
\* has the identifier, 0 for None.
find_package_index(pkgs, identifier) ==
    IF \E i \in 1..Len(pkgs) : get_package_identifier(pkgs[i]) = identifier
    THEN CHOOSE i \in 1..Len(pkgs) :
             /\ get_package_identifier(pkgs[i]) = identifier
             /\ \A j \in 1..(i - 1) : get_package_identifier(pkgs[j]) # identifier
    ELSE 0

\* has_package(packages, identifier).
has_package(pkgs, identifier) == find_package_index(pkgs, identifier) # 0

\* add_hub_package that takes a package for a duplicate only when its version
\* is the same too.
add_hub_package_same_version(pkgs, package_name, version) ==
    IF \E i \in 1..Len(pkgs) : pkgs[i] = HubPackage(package_name, version)
    THEN [err |-> "PackageAlreadyExistsError", pkgs |-> pkgs]
    ELSE [err |-> "ok", pkgs |-> Append(pkgs, HubPackage(package_name, version))]

\* add_hub_package(packages, package_name, version): [err, pkgs].
add_hub_package(pkgs, package_name, version) ==
    IF has_package(pkgs, package_name)
    THEN [err |-> "PackageAlreadyExistsError", pkgs |-> pkgs]
    ELSE [err |-> "ok", pkgs |-> Append(pkgs, HubPackage(package_name, version))]

\* add_git_package that compares the URL with the Git packages only.
add_git_package_same_variant(pkgs, git_url, revision, subdirectory) ==
    IF \E i \in 1..Len(pkgs) : pkgs[i].type = "git" /\ pkgs[i].git = git_url
    THEN [err |-> "PackageAlreadyExistsError", pkgs |-> pkgs]
    ELSE [err |-> "ok",
          pkgs |-> Append(pkgs, GitPackage(git_url, revision, subdirectory))]

\* add_git_package(packages, git_url, revision, subdirectory): [err, pkgs].
add_git_package(pkgs, git_url, revision, subdirectory) ==
    IF has_package(pkgs, git_url)
    THEN [err |-> "PackageAlreadyExistsError", pkgs |-> pkgs]
    ELSE [err |-> "ok",
          pkgs |-> Append(pkgs, GitPackage(git_url, revision, subdirectory))]

\* add_local_package(packages, local_path): [err, pkgs].
add_local_package(pkgs, local_path) ==
    IF has_package(pkgs, local_path)
    THEN [err |-> "PackageAlreadyExistsError", pkgs |-> pkgs]
    ELSE [err |-> "ok", pkgs |-> Append(pkgs, LocalPackage(local_path))]

\* list.pop(index).
ListPop(l, i) == SubSeq(l, 1, i - 1) \o SubSeq(l, i + 1, Len(l))

\* remove_package that pops the last package instead of the one found.
remove_package_pop_last(pkgs, identifier) ==
    IF find_package_index(pkgs, identifier) = 0
    THEN [err |-> "PackageNotFoundError", pkgs |-> pkgs]
    ELSE [err |-> "ok", pkgs |-> SubSeq(pkgs, 1, Len(pkgs) - 1)]

\* remove_package(packages, identifier): [err, pkgs].
remove_package(pkgs, identifier) ==
    LET index == find_package_index(pkgs, identifier) IN
    IF index = 0
    THEN [err |-> "PackageNotFoundError", pkgs |-> pkgs]
    ELSE [err |-> "ok", pkgs |-> ListPop(pkgs, index)]

\* update_package_version without the check that the package is a Hub
\* package: other packages are returned as they are.
update_package_version_unchecked(pkgs, package_name, new_version) ==
    LET index == find_package_index(pkgs, package_name) IN
    IF index = 0
    THEN [err |-> "PackageNotFoundError", pkgs |-> pkgs]
    ELSE IF pkgs[index].type # "hub"
    THEN [err |-> "ok", pkgs |-> pkgs]
    ELSE [err |-> "ok",
          pkgs |-> [pkgs EXCEPT ![index] =
                       HubPackage(pkgs[index].package, new_version)]]

\* update_package_version(packages, package_name, new_version): [err, pkgs].
update_package_version(pkgs, package_name, new_version) ==
    LET index == find_package_index(pkgs, package_name) IN
    IF index = 0
    THEN [err |-> "PackageNotFoundError", pkgs |-> pkgs]
    ELSE IF pkgs[index].type # "hub"
    THEN [err |-> "ValueError", pkgs |-> pkgs]
    ELSE [err |-> "ok",
          pkgs |-> [pkgs EXCEPT ![index] =
                       HubPackage(pkgs[index].package, new_version)]]

(***************************************************************************)
(* Persistence                                                             *)
(***************************************************************************)
\* A load that reads the file without testing that it exists.
load_project_unchecked(f) ==
    IF IsNone(f) THEN [err |-> "FileNotFoundError", doc |-> NoDoc]
    ELSE from_file(f[1])

\* load_project(path) on the file state f: [err, doc].
load_project(f) ==
    IF IsNone(f) THEN [err |-> "ProjectNotFoundError", doc |-> NoDoc]
    ELSE from_file(f[1])

\* save_project without the re-parse of the serialized text.
save_project_unvalidated(p, f, dir) ==
    [err |-> "ok", file |-> Some(to_yaml(p)), dir |-> TRUE]

\* save_project(project, path) with the file state f and the directory state
\* dir: [err, file, dir] after the call.
save_project(p, f, dir) ==
    LET yaml_content == to_yaml(p) IN
    IF from_yaml(yaml_content).err # "ok"
    THEN [err |-> "ValueError", file |-> f, dir |-> dir]
    ELSE [err |-> "ok", file |-> Some(yaml_content), dir |-> TRUE]

\* load_packages(project_dir) on the file state f: [err, pkgs].
load_packages(f) ==
    IF IsNone(f) THEN [err |-> "ok", pkgs |-> <<>>]
    ELSE packages_from_yaml(f[1])

\* save_packages(packages, project_dir): [err, file] after the call.  The
\* directory is not created: write_text fails when it does not exist.
save_packages(pkgs, f, dir) ==
    LET yaml_content == packages_to_yaml(pkgs) IN
    IF packages_from_yaml(yaml_content).err # "ok"
    THEN [err |-> "ValueError", file |-> f]
    ELSE IF ~dir
    THEN [err |-> "FileNotFoundError", file |-> f]
    ELSE [err |-> "ok", file |-> Some(yaml_content)]

(***************************************************************************)
(* Inputs and initial states                                               *)
(***************************************************************************)
\* dbt_project.yml texts a session starts from.
InitProjectTexts ==
    { Mapping([name |-> Some(<<"a">>), profile |-> Some("default")]),
      Mapping(("model-paths" :> <<"models", "staging">>)
                @@ ("on-run-start" :> Some("hook"))
                @@ [name |-> Some(<<"a">>), profile |-> Some("default"),
                    vars |-> Some("opaque")]) }

InitProjects == {from_yaml(t).doc : t \in InitProjectTexts}

\* packages.yml texts a session starts from: none, two distinct packages, and
\* a hand-written file that repeats an identifier.
InitPackagesTexts ==
    { EmptyYaml,
      Mapping([packages |->
          << [package |-> Some("x"), version |-> Some("v1")],
             [git |-> Some("y"), revision |-> Some("main")] >>]),
      Mapping([packages |->
          << [local |-> Some("x")],
             [package |-> Some("x"), version |-> Some("v1")] >>]) }

InitPackageLists == {packages_from_yaml(t).pkgs : t \in InitPackagesTexts}

NoCall == [op |-> "init", args |-> <<>>, err |-> "ok"]

Init ==
    /\ project \in InitProjects
    /\ projectFile = None
    /\ packages \in InitPackageLists
    /\ packagesFile = None
    /\ dirExists \in BOOLEAN
    /\ last = NoCall
    /\ kept = None
    /\ tokenFiles = <<>>
    /\ environ = <<>>
    /\ now = 0
    /\ call = [op |-> "none"]
    /\ tasks = <<>>
    /\ outcome = None
    /\ profiles = <<>>
    /\ tree = {}
    /\ found = None

\* Names passed to update_project_field(project, "name", ...).
NameValues ==
    { Some(<<"_", "1">>), Some(<<"1">>), Some(<<"a", "-">>),
      Some(<<"a", "\n">>), Some(<<>>), None }

\* Values passed for the other editable fields.
ScalarValues == { Some("v"), Some(""), None }

\* Field names passed to update_project_field.
FieldNames ==
    { "name", "profile", "version", "require_dbt_version",
      "require-dbt-version", "vars", "config-version", "model_paths" }

PathValues == {"models", "staging"}

\* Lists over PathValues of length at most n.
RECURSIVE ListsUpTo(_)
ListsUpTo(n) ==
    IF n = 0 THEN {<<>>}
    ELSE LET shorter == ListsUpTo(n - 1) IN
         shorter \cup {Append(l, v) : l \in {x \in shorter : Len(x) = n - 1},
                                      v \in PathValues}

\* Values passed to update_path_field.
PathArgs ==
    {Str(v) : v \in PathValues} \cup {Lst(l) : l \in ListsUpTo(MaxSetLen)}

\* Field names passed to update_path_field.
PathFieldNames == {"model_paths", "model-paths", "name", "invalid-field"}

PathActions == {"add", "remove", "set", "clear"}

PackageIds == {"x", "y", "z"}
Versions == {"v1", "v2"}
Subdirectories == {None, Some("sub")}

(***************************************************************************)
(* Actions: one per call                                                   *)
(***************************************************************************)
\* The contents, after a call of an editor function, of the object that was
\* passed to it.  The functions assign to the document (setattr), append to
\* and pop from the list they are given, and return that same object: the
\* object passed in has the contents of the object returned.
argument_after_call(before, returned) == returned

UpdateProjectField(field, value) ==
    LET r == update_project_field(project, field, value) IN
    /\ project' = r.doc
    /\ last' = [op |-> "update_project_field",
                args |-> [field |-> field, value |-> value], err |-> r.err]
    /\ UNCHANGED <<projectFile, packages, packagesFile, dirExists>>
    /\ kept' = Some(argument_after_call(project, r.doc))
    /\ UNCHANGED <<tokenVars, moreVars>>

UpdatePathField(field, action, value) ==
    LET r == update_path_field(project, field, action, value) IN
    /\ project' = r.doc
    /\ last' = [op |-> "update_path_field",
                args |-> [field |-> field, action |-> action, value |-> value],
                err |-> r.err]
    /\ UNCHANGED <<projectFile, packages, packagesFile, dirExists>>
    /\ kept' = Some(argument_after_call(project, r.doc))
    /\ UNCHANGED <<tokenVars, moreVars>>

SaveProject ==
    LET r == save_project(project, projectFile, dirExists) IN
    /\ projectFile' = r.file
    /\ dirExists' = r.dir
    /\ last' = [op |-> "save_project", args |-> <<>>, err |-> r.err]
    /\ UNCHANGED <<project, packages, packagesFile>>
    /\ kept' = Some(project)
    /\ UNCHANGED <<tokenVars, moreVars>>

LoadProject ==
    LET r == load_project(projectFile) IN
    /\ project' = IF r.err = "ok" THEN r.doc ELSE project
    /\ last' = [op |-> "load_project", args |-> <<>>, err |-> r.err]
    /\ UNCHANGED <<projectFile, packages, packagesFile, dirExists>>
    /\ kept' = None
    /\ UNCHANGED <<tokenVars, moreVars>>

AddHubPackage(package_name, version) ==
    LET r == add_hub_package(packages, package_name, version) IN
    /\ packages' = r.pkgs
    /\ last' = [op |-> "add_hub_package",
                args |-> [id |-> package_name, version |-> version], err |-> r.err]
    /\ UNCHANGED <<project, projectFile, packagesFile, dirExists>>
    /\ kept' = Some(argument_after_call(packages, r.pkgs))
    /\ UNCHANGED <<tokenVars, moreVars>>

AddGitPackage(git_url, revision, subdirectory) ==
    LET r == add_git_package(packages, git_url, revision, subdirectory) IN
    /\ packages' = r.pkgs
    /\ last' = [op |-> "add_git_package",
                args |-> [id |-> git_url, revision |-> revision,
                          subdirectory |-> subdirectory],
                err |-> r.err]
    /\ UNCHANGED <<project, projectFile, packagesFile, dirExists>>
    /\ kept' = Some(argument_after_call(packages, r.pkgs))
    /\ UNCHANGED <<tokenVars, moreVars>>

AddLocalPackage(local_path) ==
    LET r == add_local_package(packages, local_path) IN
    /\ packages' = r.pkgs
    /\ last' = [op |-> "add_local_package", args |-> [id |-> local_path],
                err |-> r.err]
    /\ UNCHANGED <<project, projectFile, packagesFile, dirExists>>
    /\ kept' = Some(argument_after_call(packages, r.pkgs))
    /\ UNCHANGED <<tokenVars, moreVars>>

RemovePackage(identifier) ==
    LET r == remove_package(packages, identifier) IN
    /\ packages' = r.pkgs
    /\ last' = [op |-> "remove_package", args |-> [id |-> identifier],
                err |-> r.err]
    /\ UNCHANGED <<project, projectFile, packagesFile, dirExists>>
    /\ kept' = Some(argument_after_call(packages, r.pkgs))
    /\ UNCHANGED <<tokenVars, moreVars>>

UpdatePackageVersion(package_name, new_version) ==
    LET r == update_package_version(packages, package_name, new_version) IN
    /\ packages' = r.pkgs
    /\ last' = [op |-> "update_package_version",
                args |-> [id |-> package_name, version |-> new_version],
                err |-> r.err]
    /\ UNCHANGED <<project, projectFile, packagesFile, dirExists>>
    /\ kept' = Some(argument_after_call(packages, r.pkgs))
    /\ UNCHANGED <<tokenVars, moreVars>>

SavePackages ==
    LET r == save_packages(packages, packagesFile, dirExists) IN
    /\ packagesFile' = r.file
    /\ last' = [op |-> "save_packages", args |-> <<>>, err |-> r.err]
    /\ UNCHANGED <<project, projectFile, packages, dirExists>>
    /\ kept' = Some(packages)
    /\ UNCHANGED <<tokenVars, moreVars>>

LoadPackages ==
    LET r == load_packages(packagesFile) IN
    /\ packages' = IF r.err = "ok" THEN r.pkgs ELSE packages
    /\ last' = [op |-> "load_packages", args |-> <<>>, err |-> r.err]
    /\ UNCHANGED <<project, projectFile, packagesFile, dirExists>>
    /\ kept' = None
    /\ UNCHANGED <<tokenVars, moreVars>>

(***************************************************************************)
(* Specifications                                                          *)
(***************************************************************************)
\* Editing the scalar fields of a project document in memory.
EditFields ==
    \E f \in FieldNames :
      \E v \in (IF f = "name" THEN NameValues ELSE ScalarValues) :
        UpdateProjectField(f, v)

\* Editing the path-list fields of a project document in memory.
EditPaths ==
    \E f \in PathFieldNames, a \in PathActions, v \in PathArgs :
        UpdatePathField(f, a, v)

\* Editing a package list in memory.
EditPackages ==
    \/ \E id \in PackageIds, v \in Versions : AddHubPackage(id, v)
    \/ \E id \in PackageIds, sub \in Subdirectories : AddGitPackage(id, "main", sub)
    \/ \E id \in PackageIds : AddLocalPackage(id)
    \/ \E id \in PackageIds : RemovePackage(id)
    \/ \E id \in PackageIds, v \in Versions : UpdatePackageVersion(id, v)

\* A session that edits both documents and saves and loads them, on a
\* narrower choice of edits.
Persist ==
    \/ \E v \in {None, Some(<<"a", "\n">>)} : UpdateProjectField("name", v)
    \/ UpdateProjectField("version", None)
    \/ UpdatePathField("model_paths", "add", Str("staging"))
    \/ SaveProject
    \/ LoadProject
    \/ AddHubPackage("x", "v1")
    \/ AddGitPackage("y", "main", None)
    \/ RemovePackage("x")
    \/ UpdatePackageVersion("x", "v2")
    \/ SavePackages
    \/ LoadPackages

Next == EditFields \/ EditPaths \/ EditPackages \/ Persist

Spec == Init /\ [][Next]_vars

InitProject == Init /\ packages = <<>> /\ dirExists = TRUE
SpecFields == InitProject /\ [][EditFields]_vars
SpecPaths == InitProject /\ [][EditPaths]_vars

InitPackages ==
    /\ Init
    /\ project = from_yaml(Mapping([name |-> Some(<<"a">>),
                                    profile |-> Some("default")])).doc
    /\ dirExists = TRUE
SpecPackages == InitPackages /\ [][EditPackages]_vars

InitPersist ==
    /\ Init
    /\ project = from_yaml(Mapping([name |-> Some(<<"a">>),
                                    profile |-> Some("default")])).doc
    /\ packages = <<>>
SpecPersist == InitPersist /\ [][Persist]_vars

(***************************************************************************)
(* Properties                                                              *)
(***************************************************************************)
\* The naming grammar ^[A-Za-z_][A-Za-z0-9_]*$ on an optional name.
NameInGrammar(n) == ~IsNone(n) /\ FullMatch(n[1])

\* No two packages of the list have the same identifier.
UniqueIds(pkgs) ==
    \A i, j \in 1..Len(pkgs) :
        get_package_identifier(pkgs[i]) = get_package_identifier(pkgs[j]) => i = j

\* Some package of the list has identifier id.
HasId(pkgs, id) == \E i \in 1..Len(pkgs) : get_package_identifier(pkgs[i]) = id

\* Some package of the list is of variant t and has identifier id.
HasVariantId(pkgs, t, id) ==
    \E i \in 1..Len(pkgs) :
        pkgs[i].type = t /\ get_package_identifier(pkgs[i]) = id

\* l2 is l1 with the entry at index i taken out, the rest in order.
WithoutIndex(l1, i, l2) ==
    /\ Len(l2) = Len(l1) - 1
    /\ \A j \in 1..(i - 1) : l2[j] = l1[j]
    /\ \A j \in i..Len(l2) : l2[j] = l1[j + 1]

\* C1: a save whose re-parse fails raises and leaves the file as it was
\* (present with its previous content, or absent); every content a save
\* gives a file is parsed without error by the matching load.
C1_SaveWritesOnlyReadableFiles ==
    [][ /\ (last'.op = "save_project"
              /\ from_yaml(to_yaml(project)).err # "ok")
            => (last'.err # "ok" /\ projectFile' = projectFile)
        /\ (last'.op = "save_packages"
              /\ packages_from_yaml(packages_to_yaml(packages)).err # "ok")
            => (last'.err # "ok" /\ packagesFile' = packagesFile)
        /\ (projectFile' # projectFile)
            => (~IsNone(projectFile') /\ load_project(projectFile').err = "ok")
        /\ (packagesFile' # packagesFile)
            => (~IsNone(packagesFile') /\ load_packages(packagesFile').err = "ok")
      ]_vars

\* C1 witness: a save of a document that does not re-parse has failed, and
\* the file written by an earlier save is still there and still loads.
C1_Witness ==
    /\ last.op = "save_project" /\ last.err = "ValueError"
    /\ from_yaml(to_yaml(project)).err # "ok"
    /\ ~IsNone(projectFile) /\ load_project(projectFile).err = "ok"
    /\ ~IsNone(packagesFile) /\ load_packages(packagesFile).err = "ok"

\* C2: right after a successful save_project(d, p), load_project(p) succeeds
\* and returns a document equal to d, field by field.
C2_SaveThenLoadIsEqual ==
    (last.op = "save_project" /\ last.err = "ok")
        => /\ load_project(projectFile).err = "ok"
           /\ load_project(projectFile).doc = project

\* C3: in every state reached by update_project_field calls the name of the
\* document matches ^[A-Za-z_][A-Za-z0-9_]*$.
C3_NameAlwaysInGrammar == NameInGrammar(project.name)

\* C4: a list with unique identifiers keeps unique identifiers through every
\* add, remove and version-update call, succeeding or failing.
C4_IdentifiersStayUnique ==
    [][UniqueIds(packages) => UniqueIds(packages')]_vars

\* C4 witness: three packages of three variants with distinct identifiers,
\* after an add that was refused.
C4_Witness ==
    /\ Len(packages) = 3 /\ UniqueIds(packages)
    /\ {packages[i].type : i \in 1..3} = {"hub", "git", "local"}
    /\ last.err = "PackageAlreadyExistsError"

\* C5: an add of a package whose variant and identifier are already in the
\* list fails with PackageAlreadyExistsError whatever the secondary fields,
\* and returns the list as it was.
C5_DuplicateAddFails ==
    \A id \in PackageIds :
        /\ HasVariantId(packages, "hub", id) =>
             \A v \in Versions :
                add_hub_package(packages, id, v) =
                    [err |-> "PackageAlreadyExistsError", pkgs |-> packages]
        /\ HasVariantId(packages, "git", id) =>
             \A rev \in {"main", "dev"}, sub \in Subdirectories :
                add_git_package(packages, id, rev, sub) =
                    [err |-> "PackageAlreadyExistsError", pkgs |-> packages]
        /\ HasVariantId(packages, "local", id) =>
             add_local_package(packages, id) =
                 [err |-> "PackageAlreadyExistsError", pkgs |-> packages]

\* C5 witness: add_hub_package was refused for a Hub package that is in the
\* list with another version.
C5_Witness ==
    /\ last.op = "add_hub_package"
    /\ last.err = "PackageAlreadyExistsError"
    /\ \E i \in 1..Len(packages) :
          /\ packages[i].type = "hub"
          /\ packages[i].package = last.args.id
          /\ packages[i].version # last.args.version

\* C6 as stated: an add of variant t with identifier s succeeds when the
\* packages that have identifier s are all of another variant.
C6_CrossVariantAddSucceeds ==
    [][ \A t \in {"hub", "git", "local"} :
          ( /\ last'.op = "add_" \o t \o "_package"
            /\ HasId(packages, last'.args.id)
            /\ ~HasVariantId(packages, t, last'.args.id) )
          => last'.err = "ok" ]_vars

\* C6 amended: the adds compare the identifier string with the identifier
\* of every package, of any variant: an add fails with
\* PackageAlreadyExistsError and returns the list as it was when some package
\* has the identifier, and appends the new package at the end otherwise.
C6_AddComparesAcrossVariants ==
    \A id \in PackageIds :
        /\ \A v \in Versions :
             add_hub_package(packages, id, v) =
                IF HasId(packages, id)
                THEN [err |-> "PackageAlreadyExistsError", pkgs |-> packages]
                ELSE [err |-> "ok", pkgs |-> Append(packages, HubPackage(id, v))]
        /\ \A sub \in Subdirectories :
             add_git_package(packages, id, "main", sub) =
                IF HasId(packages, id)
                THEN [err |-> "PackageAlreadyExistsError", pkgs |-> packages]
                ELSE [err |-> "ok",
                      pkgs |-> Append(packages, GitPackage(id, "main", sub))]
        /\ add_local_package(packages, id) =
                IF HasId(packages, id)
                THEN [err |-> "PackageAlreadyExistsError", pkgs |-> packages]
                ELSE [err |-> "ok", pkgs |-> Append(packages, LocalPackage(id))]

\* C6 witness: add_git_package was refused for a URL that no Git package of
\* the list has, because a package of another variant has it as identifier.
C6_Witness ==
    /\ last.op = "add_git_package"
    /\ last.err = "PackageAlreadyExistsError"
    /\ ~HasVariantId(packages, "git", last.args.id)
    /\ HasId(packages, last.args.id)

\* C7: update_package_version fails with PackageNotFoundError when no
\* package has the identifier and with ValueError when the matched package is
\* a Git or Local package, the list unchanged in both cases; on a Hub package
\* it succeeds, sets that package's version and leaves its identifier, the
\* order and every other package as they were.
C7_UpdatePackageVersion ==
    \A id \in PackageIds, v \in Versions :
        LET r == update_package_version(packages, id, v) IN
        IF ~HasId(packages, id)
        THEN r = [err |-> "PackageNotFoundError", pkgs |-> packages]
        ELSE \E i \in 1..Len(packages) :
               /\ get_package_identifier(packages[i]) = id
               /\ \A j \in 1..(i - 1) : get_package_identifier(packages[j]) # id
               /\ IF packages[i].type # "hub"
                  THEN r = [err |-> "ValueError", pkgs |-> packages]
                  ELSE /\ r.err = "ok"
                       /\ Len(r.pkgs) = Len(packages)
                       /\ r.pkgs[i] = HubPackage(id, v)
                       /\ \A j \in 1..Len(packages) :
                             j # i => r.pkgs[j] = packages[j]

\* C7 witness: a version update succeeded on a Hub package, and the list
\* holds the updated package next to a Git or Local package.
C7_Witness ==
    /\ last.op = "update_package_version" /\ last.err = "ok"
    /\ Len(packages) >= 2
    /\ \E i \in 1..Len(packages) :
          packages[i] = HubPackage(last.args.id, last.args.version)
    /\ \E i \in 1..Len(packages) : packages[i].type # "hub"

\* C8: remove_package fails with PackageNotFoundError and returns the list
\* as it was when no package has the identifier; otherwise it takes out one
\* package, one that has the identifier, and keeps the others in order.
C8_RemovePackage ==
    \A id \in PackageIds :
        LET r == remove_package(packages, id) IN
        IF ~HasId(packages, id)
        THEN r = [err |-> "PackageNotFoundError", pkgs |-> packages]
        ELSE /\ r.err = "ok"
             /\ \E i \in 1..Len(packages) :
                   /\ get_package_identifier(packages[i]) = id
                   /\ WithoutIndex(packages, i, r.pkgs)

\* C8 witness: a removal succeeded and left two packages, none of which has
\* the removed identifier.
C8_Witness ==
    /\ last.op = "remove_package" /\ last.err = "ok"
    /\ Len(packages) = 2
    /\ ~HasId(packages, last.args.id)

\* C9: update_path_field(doc, f, "remove", v) fails and returns the document
\* as it was when v is not in field f; when v is in it, one occurrence of v
\* is taken out, the other entries keep their order and no other field
\* changes; add "staging" then remove "models" on ["models"] gives
\* ["staging"].
C9_RemovePath ==
    /\ \A f \in PATH_FIELDS, v \in PathValues :
        \A arg \in {Str(v), Lst(<<v>>)} :
          LET r == update_path_field(project, f, "remove", arg) IN
          IF ~InList(v, project[f])
          THEN r.err = "ValueError" /\ r.doc = project
          ELSE /\ r.err = "ok"
               /\ \E i \in 1..Len(project[f]) :
                     /\ project[f][i] = v
                     /\ WithoutIndex(project[f], i, r.doc[f])
               /\ r.doc = [project EXCEPT ![f] = r.doc[f]]
    /\ LET d0 == [project EXCEPT !["model_paths"] = <<"models">>]
           d1 == update_path_field(d0, "model_paths", "add", Str("staging")).doc
           d2 == update_path_field(d1, "model_paths", "remove", Str("models"))
       IN d2.err = "ok" /\ d2.doc["model_paths"] = <<"staging">>

\* C9 witness: a removal of "models" succeeded and "models" is still in the
\* list: the list held it twice and one occurrence is left.
C9_Witness ==
    /\ last.op = "update_path_field" /\ last.args.action = "remove"
    /\ last.err = "ok"
    /\ last.args.value.t = "str" /\ last.args.value.v = "models"
    /\ project["model_paths"] = <<"models", "staging">>

\* C10: update_path_field(doc, f, "add", v) returns the document as it was
\* when v is in field f, appends v once at the end when it is not, and
\* applied a second time changes nothing.
C10_AddPathIdempotent ==
    \A f \in PATH_FIELDS, v \in PathValues :
        LET r1 == update_path_field(project, f, "add", Str(v))
            r2 == update_path_field(r1.doc, f, "add", Str(v))
        IN /\ r1.err = "ok" /\ r2.err = "ok"
           /\ IF InList(v, project[f])
              THEN r1.doc = project
              ELSE r1.doc = [project EXCEPT ![f] = Append(project[f], v)]
           /\ r2.doc = r1.doc

\* C10 witness: an add of a path succeeded on a list that holds the path
\* twice: the list is as it was before the call.
C10_Witness ==
    /\ last.op = "update_path_field" /\ last.args.action = "add"
    /\ last.err = "ok"
    /\ last.args.value.t = "str" /\ last.args.value.v = "models"
    /\ project["model_paths"] = <<"models", "models">>

(***************************************************************************)
(* The allow-lists of the two field editors                                *)
(***************************************************************************)
\* Field names passed to both update_project_field and update_path_field.
AllowNames ==
    { "name", "profile", "version", "require_dbt_version",
      "require-dbt-version", "model_paths", "model-paths", "seed_paths",
      "clean-targets", "vars", "models", "config_version", "config-version",
      "invalid-field" }

\* Calls of both field editors with every name of AllowNames.
EditAllow ==
    \/ \E f \in AllowNames :
         \E v \in (IF f = "name" THEN {Some(<<"b">>)} ELSE {Some("v")}) :
           UpdateProjectField(f, v)
    \/ \E f \in AllowNames : UpdatePathField(f, "add", Str("staging"))

SpecAllow == InitProject /\ [][EditAllow]_vars

\* The spellings, with dashes or underscores, of the four editable fields
\* and of the eight path-list fields.
EditableSpellings ==
    { "name", "profile", "version", "require_dbt_version",
      "require-dbt-version" }

PathSpellings ==
    { "model_paths", "seed_paths", "test_paths", "macro_paths",
      "snapshot_paths", "analysis_paths", "asset_paths", "clean_targets",
      "model-paths", "seed-paths", "test-paths", "macro-paths",
      "snapshot-paths", "analysis-paths", "asset-paths", "clean-targets" }

\* C11: update_project_field is permitted exactly for the spellings of name,
\* profile, version and require_dbt_version, update_path_field exactly for
\* the spellings of the eight path-list fields; a call with any other field
\* name fails with InvalidFieldError and leaves every field of the document
\* as it was.
C11_OnlyAllowListedFields ==
    [][ /\ last'.op = "update_project_field" =>
            IF last'.args.field \in EditableSpellings
            THEN last'.err = "ok"
            ELSE last'.err = "InvalidFieldError" /\ project' = project
        /\ last'.op = "update_path_field" =>
            IF last'.args.field \in PathSpellings
            THEN last'.err = "ok"
            ELSE last'.err = "InvalidFieldError" /\ project' = project
        /\ \A f \in PathSpellings :
              update_path_field(project, f, "add", Str("staging")).err = "ok"
        /\ \A f \in EditableSpellings \cup {"vars", "config-version"} :
              update_path_field(project, f, "add", Str("staging"))
                  = [err |-> "InvalidFieldError", doc |-> project]
        /\ \A f \in PathSpellings \cup {"vars", "config-version"} :
              update_project_field(project, f, Some("v"))
                  = [err |-> "InvalidFieldError", doc |-> project]
      ]_vars

\* C11 witness: after edits of profile and model_paths went through, a call
\* of update_path_field for the field name has failed with
\* InvalidFieldError, and the edits made before are still there.
C11_Witness ==
    /\ last.op = "update_path_field"
    /\ last.args.field = "name"
    /\ last.err = "InvalidFieldError"
    /\ project.profile = Some("v")
    /\ project.model_paths = <<"models", "staging">>

(***************************************************************************)
(* The set-require-dbt-version command                                     *)
(***************************************************************************)
\* A command that passes its value on as it got it.
or_none_keep(value) == value

\* value or None: an empty string counts as no value.
or_none(value) == IF IsNone(value) \/ value = Some("") THEN None ELSE value

\* _cli_set_require_dbt_version(project_path, value) on a file f in a
\* directory dir: [err, file, dir].  It loads the file, edits and saves; a
\* failed load leaves the file alone.
cli_set_require_dbt_version(f, dir, value) ==
    LET l == load_project(f) IN
    IF l.err # "ok" THEN [err |-> l.err, file |-> f, dir |-> dir]
    ELSE LET u == update_project_field(l.doc, "require_dbt_version",
                                       or_none(value))
         IN IF u.err # "ok" THEN [err |-> u.err, file |-> f, dir |-> dir]
            ELSE save_project(u.doc, f, dir)

\* Version constraints passed by callers.
RequireValues == { Some(">=1.0.0"), Some("<2.0.0"), Some(""), None }

RequireSpellings == { "require_dbt_version", "require-dbt-version" }

CliSetRequireDbtVersion(value) ==
    LET r == cli_set_require_dbt_version(projectFile, dirExists, value) IN
    /\ projectFile' = r.file
    /\ dirExists' = r.dir
    /\ last' = [op |-> "cli_set_require_dbt_version",
                args |-> [value |-> value], err |-> r.err]
    /\ UNCHANGED <<project, packages, packagesFile>>
    /\ kept' = None
    /\ UNCHANGED <<tokenVars, moreVars>>

\* Sessions that set and clear the version constraint, in memory and
\* through the command, and save and load the document.
EditRequire ==
    \/ \E f \in RequireSpellings, v \in RequireValues : UpdateProjectField(f, v)
    \/ \E v \in RequireValues : CliSetRequireDbtVersion(v)
    \/ SaveProject
    \/ LoadProject

SpecRequire == InitProject /\ [][EditRequire]_vars

\* The document p has no version constraint, in memory and serialized.
NoConstraint(p) ==
    /\ IsNone(p.require_dbt_version)
    /\ "require-dbt-version" \notin DOMAIN to_yaml(p).data

\* C12 as stated: after update_project_field(doc, 'require_dbt_version', v)
\* with v null or the empty string, the document has no version constraint
\* and its serialization has no require-dbt-version key.
C12_NullOrEmptyClears ==
    (/\ last.op = "update_project_field"
     /\ last.args.field \in RequireSpellings
     /\ last.args.value \in {None, Some("")})
    => (last.err = "ok" /\ NoConstraint(project))

\* C12 amended: update_project_field clears the constraint when given null;
\* any string, the empty one included, is stored as the constraint and is
\* serialized under require-dbt-version.  The set-require-dbt-version
\* command turns an empty value into null first, so that after it succeeded
\* with a null or empty value the file has no require-dbt-version key.
C12_NullClears ==
    /\ (last.op = "update_project_field"
           /\ last.args.field \in RequireSpellings)
        => /\ last.err = "ok"
           /\ project.require_dbt_version = last.args.value
           /\ IF IsNone(last.args.value)
              THEN NoConstraint(project)
              ELSE /\ "require-dbt-version" \in DOMAIN to_yaml(project).data
                   /\ to_yaml(project).data["require-dbt-version"]
                          = last.args.value
    /\ (last.op = "cli_set_require_dbt_version"
           /\ last.err = "ok"
           /\ last.args.value \in {None, Some("")})
        => /\ ~IsNone(projectFile)
           /\ "require-dbt-version" \notin DOMAIN projectFile[1].data
           /\ NoConstraint(load_project(projectFile).doc)

\* C12 witness: the session saved a document with a constraint, and the
\* command, called with the empty string, has rewritten the file without
\* the key.
C12_Witness ==
    /\ last.op = "cli_set_require_dbt_version"
    /\ last.args.value = Some("")
    /\ last.err = "ok"
    /\ project.require_dbt_version = Some(">=1.0.0")
    /\ ~IsNone(projectFile)
    /\ "require-dbt-version" \notin DOMAIN projectFile[1].data

(***************************************************************************)
(* The object passed to an editor function                                 *)
(***************************************************************************)
EditorFunctions ==
    { "update_project_field", "update_path_field", "add_hub_package",
      "add_git_package", "add_local_package", "remove_package",
      "update_package_version" }

\* C13: the editor functions do not modify the document or the list passed
\* in: a caller that kept the object it passed still sees, after the call,
\* the contents the object had before the call.
C13_ArgumentNotModified ==
    [][ last'.op \in EditorFunctions =>
          IF last'.op \in {"update_project_field", "update_path_field"}
          THEN kept' = Some(project)
          ELSE kept' = Some(packages) ]_vars

(***************************************************************************)
(* Saving into a directory that does not exist                             *)
(***************************************************************************)
\* C14: save creates parent directories as needed: a save_project or a
\* save_packages of a valid document into a directory that does not exist
\* yet succeeds and leaves the file present.
C14_SaveCreatesParentDirs ==
    [][ /\ (last'.op = "save_project" /\ ~dirExists
              /\ from_yaml(to_yaml(project)).err = "ok")
            => (last'.err = "ok" /\ dirExists'
                  /\ projectFile' = Some(to_yaml(project)))
        /\ (last'.op = "save_packages" /\ ~dirExists
              /\ packages_from_yaml(packages_to_yaml(packages)).err = "ok")
            => (last'.err = "ok"
                  /\ packagesFile' = Some(packages_to_yaml(packages)))
      ]_vars

(***************************************************************************)
(* Loading files that are missing or do not parse                          *)
(***************************************************************************)
\* Paths are sequences of components.  The session's project lives in the
\* directory proj; no other directory holds a packages.yml.
ProjectDir == <<"proj">>
ProjectYml == <<"proj", "dbt_project.yml">>
PackagesYml == <<"proj", "packages.yml">>

\* The packages.yml path load_packages works out from its argument: the
\* directory given, or the parent of a path whose name is dbt_project.yml.
packages_path(project_dir) ==
    (IF project_dir[Len(project_dir)] = "dbt_project.yml"
     THEN SubSeq(project_dir, 1, Len(project_dir) - 1)
     ELSE project_dir) \o <<"packages.yml">>

\* load_packages(project_dir) with f the state of proj/packages.yml.
load_packages_at(project_dir, f) ==
    IF packages_path(project_dir) = PackagesYml THEN load_packages(f)
    ELSE [err |-> "ok", pkgs |-> <<>>]

\* Arguments passed to load_packages.
ProjectDirArgs == {ProjectDir, ProjectYml, <<"other">>}

LoadPackagesAt(project_dir) ==
    LET r == load_packages_at(project_dir, packagesFile) IN
    /\ packages' = IF r.err = "ok" THEN r.pkgs ELSE packages
    /\ last' = [op |-> "load_packages", args |-> [project_dir |-> project_dir],
                err |-> r.err]
    /\ kept' = None
    /\ UNCHANGED <<project, projectFile, packagesFile, dirExists>>
    /\ UNCHANGED <<tokenVars, moreVars>>

\* Contents of a dbt_project.yml found on disk: texts that parse, and texts
\* that do not (no YAML, no mapping, a mapping without a name).
FoundProjectTexts ==
    InitProjectTexts \cup
    { InvalidYaml, EmptyYaml, ScalarYaml, Mapping([profile |-> Some("default")]) }

\* Contents of a packages.yml found on disk.
FoundPackagesTexts ==
    InitPackagesTexts \cup
    { InvalidYaml, ScalarYaml, Mapping([projects |-> <<>>]) }

\* A session that starts on files left by earlier sessions or written by
\* hand.
InitLoad ==
    /\ project \in InitProjects
    /\ packages \in InitPackageLists
    /\ projectFile \in {None} \cup {Some(t) : t \in FoundProjectTexts}
    /\ packagesFile \in {None} \cup {Some(t) : t \in FoundPackagesTexts}
    /\ dirExists = TRUE
    /\ last = NoCall
    /\ kept = None
    /\ tokenFiles = <<>>
    /\ environ = <<>>
    /\ now = 0
    /\ call = [op |-> "none"]
    /\ tasks = <<>>
    /\ outcome = None
    /\ profiles = <<>>
    /\ tree = {}
    /\ found = None

Load ==
    \/ LoadProject
    \/ \E d \in ProjectDirArgs : LoadPackagesAt(d)

SpecLoad == InitLoad /\ [][Load]_vars

\* C15: load_project fails with ProjectNotFoundError when the file does not
\* exist, and otherwise gives what the parse of the file's text gives, its
\* error included; load_packages gives the empty list without an error when
\* packages.yml does not exist, and gives the same result for the project
\* directory and for the path of its dbt_project.yml.
C15_LoadOutcomes ==
    [][ /\ last'.op = "load_project" =>
            IF IsNone(projectFile)
            THEN last'.err = "ProjectNotFoundError" /\ project' = project
            ELSE LET r == from_yaml(projectFile[1]) IN
                 /\ last'.err = r.err
                 /\ project' = IF r.err = "ok" THEN r.doc ELSE project
        /\ (last'.op = "load_packages" /\ IsNone(packagesFile))
            => (last'.err = "ok" /\ packages' = <<>>)
        /\ load_packages_at(ProjectDir, packagesFile')
              = load_packages_at(ProjectYml, packagesFile')
      ]_vars

\* C15 witness: a load_project of a file that is there but does not parse
\* has failed with the parse error, while packages.yml is missing.
C15_Witness ==
    /\ last.op = "load_project"
    /\ last.err = "ValueError"
    /\ ~IsNone(projectFile)
    /\ IsNone(packagesFile)

(***************************************************************************)
(* Saving and reloading a package list                                     *)
(***************************************************************************)
\* Identifiers used in sessions that also save and load.
RoundTripIds == {"x", "y"}

\* Sessions that build a package list from the empty list with the package
\* functions, and save and load it.
EditAndReload ==
    \/ \E id \in RoundTripIds, v \in Versions : AddHubPackage(id, v)
    \/ \E id \in RoundTripIds, sub \in Subdirectories :
          AddGitPackage(id, "main", sub)
    \/ \E id \in RoundTripIds : AddLocalPackage(id)
    \/ \E id \in RoundTripIds : RemovePackage(id)
    \/ \E id \in RoundTripIds, v \in Versions : UpdatePackageVersion(id, v)
    \/ SavePackages
    \/ LoadPackages

InitRoundTrip == InitPackages /\ packages = <<>>

SpecRoundTrip == InitRoundTrip /\ [][EditAndReload]_vars

\* C16: a load_packages that follows a successful save_packages of a list
\* built from the empty list by the package functions succeeds and returns
\* the list that was saved: the same packages in the same order, each of the
\* same variant and with the same field values.
C16_PackagesRoundTrip ==
    [][ (last.op = "save_packages" /\ last.err = "ok"
            /\ last'.op = "load_packages")
        => (last'.err = "ok" /\ packages' = packages) ]_vars

\* C16 witness: a list with a Git package with a subdirectory and a Hub
\* package whose version was updated has been saved and loaded again.
C16_Witness ==
    /\ last.op = "load_packages"
    /\ last.err = "ok"
    /\ packages = << GitPackage("y", "main", Some("sub")),
                     HubPackage("x", "v2") >>
    /\ packagesFile = Some(packages_to_yaml(packages))

(***************************************************************************)
(* Token manager: profile, metadata files, clock                           *)
(*                                                                         *)
(* Times are whole hours.  A metadata file holds a TokenInfo, a text that  *)
(* is no JSON, or a JSON value that does not validate as a TokenInfo.  A   *)
(* minted token value is named after the coroutine that minted it.         *)
(***************************************************************************)
\* The last hour the clock reaches.
MaxClock == 2

\* The longest explicit environment list passed to refresh_all_tokens.
MaxEnvs == 2

\* profile.targets of the DbtProfile in use, in the order of its keys: dev
\* and stage read their token from the same variable, ci has none.
TargetNames == <<"dev", "stage", "prod", "ci">>

Targets ==
    [dev |-> [host |-> "adb-dev", token_env_var |-> Some("TOKEN_DEV")],
     stage |-> [host |-> "https://adb-stage", token_env_var |-> Some("TOKEN_DEV")],
     prod |-> [host |-> "https://adb-prod", token_env_var |-> Some("TOKEN_PROD")],
     ci |-> [host |-> "adb-ci", token_env_var |-> None]]

\* Environment names callers pass: the targets and a name that is none.
Environments == {"dev", "stage", "prod", "ci", "qa"}

TokenVariables == {"TOKEN_DEV", "TOKEN_PROD"}

\* profile.targets.get(environment): <<>> when there is no such target.
targets_get(environment) ==
    IF environment \in DOMAIN Targets THEN Some(Targets[environment]) ELSE None

\* workspace_url: the host, with https:// put in front when it is missing.
workspace_url(host) ==
    CASE host = "adb-dev" -> "https://adb-dev"
      [] host = "adb-ci" -> "https://adb-ci"
      [] OTHER -> host

TokenInfo(token_variable, environment, created_at, expires_at, url) ==
    [token_variable |-> token_variable, environment |-> environment,
     created_at |-> created_at, expires_at |-> expires_at,
     workspace_url |-> url]

\* Contents of a metadata file.
InfoFile(info) == [kind |-> "info", info |-> info]
NotJson == [kind |-> "not_json"]
NotTokenInfo == [kind |-> "not_token_info"]

\* f with key k set to value v.
Put(f, k, v) == [x \in DOMAIN f \cup {k} |-> IF x = k THEN v ELSE f[x]]

\* load_token_info(token_variable): [err, info].  A missing file and a text
\* that is no JSON give None; a JSON value that does not validate raises the
\* ValidationError of TokenInfo.model_validate, which the function does not
\* catch.
load_token_info(files, token_variable) ==
    IF token_variable \notin DOMAIN files THEN [err |-> "ok", info |-> None]
    ELSE LET content == files[token_variable] IN
         CASE content.kind = "not_json" -> [err |-> "ok", info |-> None]
           [] content.kind = "not_token_info" ->
                [err |-> "ValidationError", info |-> None]
           [] OTHER -> [err |-> "ok", info |-> Some(content.info)]

\* An expiry test that takes the hour of expiry as still valid.
is_token_expired_after(info, t) == t > info.expires_at

\* is_token_expired(info) with the clock reading t.
is_token_expired(info, t) == t >= info.expires_at

\* A save that keeps the creation time of the record it finds.
save_token_info_merge(files, info, write) ==
    IF write = "OSError" THEN [err |-> "TokenStorageError", files |-> files]
    ELSE LET prior == load_token_info(files, info.token_variable)
             kept_created == IF prior.err = "ok" /\ ~IsNone(prior.info)
                             THEN prior.info[1].created_at ELSE info.created_at
         IN [err |-> "ok",
             files |-> Put(files, info.token_variable,
                           InfoFile([info EXCEPT !.created_at = kept_created]))]

\* save_token_info(info) with the outcome of the write: [err, files].
save_token_info(files, info, write) ==
    IF write = "OSError" THEN [err |-> "TokenStorageError", files |-> files]
    ELSE [err |-> "ok", files |-> Put(files, info.token_variable, InfoFile(info))]

(***************************************************************************)
(* Token manager: check_token                                              *)
(***************************************************************************)
TokenCheckResult(environment, token_variable, needs_refresh, expires_at, hours_remaining, message) ==
    [environment |-> environment, token_variable |-> token_variable,
     needs_refresh |-> needs_refresh, expires_at |-> expires_at,
     hours_remaining |-> hours_remaining, message |-> message]

\* check_token(environment, profile): [err, result].  t1 is the clock reading
\* inside is_token_expired, t2 the later reading hours_remaining is computed
\* from.
check_token(environment, files, t1, t2) ==
    LET target == targets_get(environment) IN
    IF IsNone(target)
    THEN [err |-> "ok",
          result |-> TokenCheckResult(environment, "", FALSE, None, None,
                                      "not found in profile")]
    ELSE IF IsNone(target[1].token_env_var)
    THEN [err |-> "ok",
          result |-> TokenCheckResult(environment, "", FALSE, None, None,
                                      "no token env var configured")]
    ELSE LET var == target[1].token_env_var[1]
             l == load_token_info(files, var)
         IN IF l.err # "ok" THEN [err |-> l.err, result |-> None]
            ELSE IF IsNone(l.info)
            THEN [err |-> "ok",
                  result |-> TokenCheckResult(environment, var, TRUE, None, None,
                                              "no token info found")]
            ELSE LET info == l.info[1]
                     expired == is_token_expired(info, t1)
                     hours_remaining == info.expires_at - t2
                 IN IF expired
                    THEN [err |-> "ok",
                          result |-> TokenCheckResult(environment, var, TRUE,
                                         Some(info.expires_at),
                                         Some(hours_remaining), "expired")]
                    ELSE [err |-> "ok",
                          result |-> TokenCheckResult(environment, var, FALSE,
                                         Some(info.expires_at),
                                         Some(hours_remaining), "valid")]

\* How the check command prints a result: a warning for a token that needs
\* a refresh, the success line of a valid token otherwise.
check_presentation(result) ==
    IF result.needs_refresh THEN "warning" ELSE "success"

(***************************************************************************)
(* Token manager: refresh_token                                            *)
(***************************************************************************)
TokenRefreshResult(environment, success, message, expires_at, token_variable) ==
    [environment |-> environment, success |-> success, message |-> message,
     expires_at |-> expires_at, token_variable |-> token_variable]

\* What get_credential and get_azure_token do: both succeed, or one of them
\* raises.
AuthOutcomes == {"ok", "credential_error", "token_error"}

\* What the POST to /api/2.0/token/create gives: a response with a token
\* value, an error status, no connection, a body that is no JSON, or a JSON
\* body without token_value.
Responses ==
    {"ok", "http_status_error", "request_error", "not_json", "no_token_value"}

\* What the write of the metadata file does.
WriteOutcomes == {"ok", "OSError"}

\* The part of refresh_token up to the await of the POST, for a coroutine
\* that starts at clock reading t: [pc, err, result, calls].  pc is "done"
\* when the coroutine has returned result, "raised" when it has raised err,
\* "awaiting" when it waits for the response.  calls are the calls it made.
refresh_token_start(environment, force, files, t, auth) ==
    LET target == targets_get(environment)
        finished(result, calls) ==
            [pc |-> "done", err |-> "ok", result |-> Some(result), calls |-> calls]
        attempt(var, calls) ==
            IF auth = "credential_error"
            THEN finished(TokenRefreshResult(environment, FALSE,
                              "Failed to refresh token", None, Some(var)),
                          calls \cup {"get_credential"})
            ELSE IF auth = "token_error"
            THEN finished(TokenRefreshResult(environment, FALSE,
                              "Failed to refresh token", None, Some(var)),
                          calls \cup {"get_credential", "get_azure_token"})
            ELSE [pc |-> "awaiting", err |-> "ok", result |-> None,
                  calls |-> calls \cup {"get_credential", "get_azure_token", "post"}]
    IN
    IF IsNone(target)
    THEN finished(TokenRefreshResult(environment, FALSE,
                      "not found in profile", None, None), {})
    ELSE IF IsNone(target[1].token_env_var)
    THEN finished(TokenRefreshResult(environment, FALSE,
                      "no token env var configured", None, None), {})
    ELSE LET var == target[1].token_env_var[1] IN
         IF force THEN attempt(var, {})
         ELSE LET l == load_token_info(files, var) IN
              IF l.err # "ok"
              THEN [pc |-> "raised", err |-> l.err, result |-> None,
                    calls |-> {"load_token_info"}]
              ELSE IF ~IsNone(l.info) /\ ~is_token_expired(l.info[1], t)
              THEN finished(TokenRefreshResult(environment, TRUE,
                                "still valid, skipping refresh",
                                Some(l.info[1].expires_at), Some(var)),
                            {"load_token_info"})
              ELSE attempt(var, {"load_token_info"})

\* An end of refresh_token that leaves an environment entry it finds as it
\* is: the first token value written stays.
refresh_token_complete_first_value(environment, lifetime_hours, files, env, t, response, write, token_value) ==
    LET target == Targets[environment]
        var == target.token_env_var[1]
        value == IF var \in DOMAIN env THEN env[var] ELSE token_value
    IN
    IF response # "ok"
    THEN [result |-> TokenRefreshResult(environment, FALSE,
                         "Failed to refresh token", None, Some(var)),
          files |-> files, environ |-> env]
    ELSE LET expires_at == t + lifetime_hours
             info == TokenInfo(var, environment, t, expires_at,
                               workspace_url(target.host))
             s == save_token_info(files, info, write)
         IN IF s.err # "ok"
            THEN [result |-> TokenRefreshResult(environment, FALSE,
                                 "Failed to refresh token", None, Some(var)),
                  files |-> files, environ |-> Put(env, var, value)]
            ELSE [result |-> TokenRefreshResult(environment, TRUE,
                                 "Token refreshed", Some(expires_at), Some(var)),
                  files |-> s.files, environ |-> Put(env, var, value)]

\* The part of refresh_token after the await, for the response that came at
\* clock reading t: [result, files, environ].  token_value is the value the
\* response carries.
refresh_token_complete(environment, lifetime_hours, files, env, t, response, write, token_value) ==
    LET target == Targets[environment]
        var == target.token_env_var[1]
    IN
    IF response # "ok"
    THEN [result |-> TokenRefreshResult(environment, FALSE,
                         "Failed to refresh token", None, Some(var)),
          files |-> files, environ |-> env]
    ELSE LET expires_at == t + lifetime_hours
             info == TokenInfo(var, environment, t, expires_at,
                               workspace_url(target.host))
             s == save_token_info(files, info, write)
         IN IF s.err # "ok"
            THEN [result |-> TokenRefreshResult(environment, FALSE,
                                 "Failed to refresh token", None, Some(var)),
                  files |-> files, environ |-> Put(env, var, token_value)]
            ELSE [result |-> TokenRefreshResult(environment, TRUE,
                                 "Token refreshed", Some(expires_at), Some(var)),
                  files |-> s.files, environ |-> Put(env, var, token_value)]

(***************************************************************************)
(* Token manager: calls and coroutines                                     *)
(***************************************************************************)
NoTokenCall == [op |-> "none"]

\* lifetime_seconds of the payload create_databricks_token posts.
lifetime_seconds(lifetime_hours) == lifetime_hours * 3600

\* A coroutine that has not run yet.  lifetime_seconds is what its POST
\* carries, once it is sent.
NewTask(environment) ==
    [environment |-> environment, pc |-> "created", result |-> None,
     calls |-> {}, lifetime_seconds |-> None]

\* Lifetimes callers ask for, in hours.
Lifetimes == {1, 24}

\* The value of the token minted by coroutine i.
TokenValue(i) == [minted_by |-> i]

\* check_token(environment, profile).  The clock may move on between the
\* two readings the function takes.
CheckToken(environment) ==
    /\ call = NoTokenCall
    /\ \E t2 \in now..MaxClock :
         LET r == check_token(environment, tokenFiles, now, t2) IN
         /\ now' = t2
         /\ outcome' = Some([op |-> "check_token", environments |-> <<environment>>,
                             raised |-> r.err # "ok",
                             results |-> IF r.err = "ok" THEN <<r.result>> ELSE <<>>])
    /\ UNCHANGED <<tokenFiles, environ, call, tasks>>
    /\ UNCHANGED <<editorVars, kept, moreVars>>

\* asyncio.run(refresh_token(environment, profile, auth_method, force,
\* lifetime_hours)): the coroutine is created.
CallRefreshToken(environment, force, lifetime_hours) ==
    /\ call = NoTokenCall
    /\ call' = [op |-> "refresh_token", environments |-> <<environment>>,
                force |-> force, lifetime_hours |-> lifetime_hours]
    /\ tasks' = <<NewTask(environment)>>
    /\ outcome' = None
    /\ UNCHANGED <<tokenFiles, environ, now>>
    /\ UNCHANGED <<editorVars, kept, moreVars>>

\* refresh_all_tokens(profile, environments, auth_method, force,
\* lifetime_hours): one coroutine per environment of the list, or per target
\* of the profile when no list is given, handed to asyncio.gather.
CallRefreshAllTokens(environments, force, lifetime_hours) ==
    LET envs == IF IsNone(environments) THEN TargetNames ELSE environments[1] IN
    /\ call = NoTokenCall
    /\ call' = [op |-> "refresh_all_tokens", environments |-> envs,
                force |-> force, lifetime_hours |-> lifetime_hours]
    /\ tasks' = [i \in 1..Len(envs) |-> NewTask(envs[i])]
    /\ outcome' = None
    /\ UNCHANGED <<tokenFiles, environ, now>>
    /\ UNCHANGED <<editorVars, kept, moreVars>>

\* Coroutine i runs from its start to its first suspension or to its end.
\* The event loop starts the coroutines in the order they were created.
Start(i, auth) ==
    /\ call # NoTokenCall
    /\ i \in 1..Len(tasks)
    /\ tasks[i].pc = "created"
    /\ \A j \in 1..(i - 1) : tasks[j].pc # "created"
    /\ LET r == refresh_token_start(tasks[i].environment, call.force,
                                    tokenFiles, now, auth)
       IN tasks' = [tasks EXCEPT ![i] =
                       [environment |-> tasks[i].environment, pc |-> r.pc,
                        result |-> r.result, calls |-> r.calls,
                        lifetime_seconds |->
                            IF r.pc = "awaiting"
                            THEN Some(lifetime_seconds(call.lifetime_hours))
                            ELSE None]]
    /\ UNCHANGED <<tokenFiles, environ, now, call, outcome>>
    /\ UNCHANGED <<editorVars, kept, moreVars>>

\* The response to the POST of coroutine i arrives and the coroutine runs to
\* its end.
Complete(i, response, write) ==
    /\ call # NoTokenCall
    /\ i \in 1..Len(tasks)
    /\ tasks[i].pc = "awaiting"
    /\ LET r == refresh_token_complete(tasks[i].environment, call.lifetime_hours,
                                       tokenFiles, environ, now, response,
                                       write, TokenValue(i))
       IN /\ tasks' = [tasks EXCEPT ![i].pc = "done", ![i].result = Some(r.result)]
          /\ tokenFiles' = r.files
          /\ environ' = r.environ
    /\ UNCHANGED <<now, call, outcome>>
    /\ UNCHANGED <<editorVars, kept, moreVars>>

\* Every coroutine has returned: the call returns the result of the single
\* coroutine, or the list asyncio.gather made of the results, in the order
\* of the coroutines.
Return ==
    /\ call # NoTokenCall
    /\ \A i \in 1..Len(tasks) : tasks[i].pc = "done"
    /\ outcome' = Some([op |-> call.op, environments |-> call.environments,
                        raised |-> FALSE,
                        results |-> [i \in 1..Len(tasks) |-> tasks[i].result[1]]])
    /\ call' = NoTokenCall
    /\ tasks' = <<>>
    /\ UNCHANGED <<tokenFiles, environ, now>>
    /\ UNCHANGED <<editorVars, kept, moreVars>>

\* A coroutine has raised: once every coroutine has been started, the
\* exception reaches the caller (asyncio.gather hands on the first exception,
\* return_exceptions being False), and asyncio.run cancels the coroutines
\* that still wait.
Abort ==
    /\ call # NoTokenCall
    /\ \E i \in 1..Len(tasks) : tasks[i].pc = "raised"
    /\ \A i \in 1..Len(tasks) : tasks[i].pc # "created"
    /\ outcome' = Some([op |-> call.op, environments |-> call.environments,
                        raised |-> TRUE, results |-> <<>>])
    /\ call' = NoTokenCall
    /\ tasks' = <<>>
    /\ UNCHANGED <<tokenFiles, environ, now>>
    /\ UNCHANGED <<editorVars, kept, moreVars>>

\* An hour passes.
Tick ==
    /\ now < MaxClock
    /\ now' = now + 1
    /\ UNCHANGED <<tokenFiles, environ, call, tasks, outcome>>
    /\ UNCHANGED <<editorVars, kept, moreVars>>

\* Metadata files found at the start: none, a TokenInfo that expires in an
\* hour, one that has expired, a text that is no JSON, a JSON value that is
\* no TokenInfo.
FoundTokenFile(token_variable) ==
    { None,
      Some(InfoFile(TokenInfo(token_variable, "dev", 0, 1, "https://adb-dev"))),
      Some(InfoFile(TokenInfo(token_variable, "dev", 0, 0, "https://adb-dev"))),
      Some(NotJson), Some(NotTokenInfo) }

\* The files as a mapping from the names of those that exist.
FilesFrom(choice) ==
    [v \in {w \in DOMAIN choice : ~IsNone(choice[w])} |-> choice[v][1]]

InitToken ==
    /\ project = from_yaml(Mapping([name |-> Some(<<"a">>),
                                    profile |-> Some("default")])).doc
    /\ projectFile = None
    /\ packages = <<>>
    /\ packagesFile = None
    /\ dirExists = TRUE
    /\ last = NoCall
    /\ kept = None
    /\ \E d \in FoundTokenFile("TOKEN_DEV"), p \in FoundTokenFile("TOKEN_PROD") :
          tokenFiles = FilesFrom([TOKEN_DEV |-> d, TOKEN_PROD |-> p])
    /\ environ = <<>>
    /\ now = 0
    /\ call = NoTokenCall
    /\ tasks = <<>>
    /\ outcome = None
    /\ profiles = <<>>
    /\ tree = {}
    /\ found = None

\* One refresh_token call at a time.
RefreshOne ==
    \/ \E e \in Environments, force \in BOOLEAN, l \in Lifetimes :
          CallRefreshToken(e, force, l)
    \/ \E auth \in AuthOutcomes : Start(1, auth)
    \/ \E r \in Responses, w \in WriteOutcomes : Complete(1, r, w)
    \/ Return
    \/ Abort
    \/ Tick

SpecRefresh == InitToken /\ [][RefreshOne]_vars

\* check_token calls as time passes.
Check ==
    \/ \E e \in Environments : CheckToken(e)
    \/ Tick

SpecCheck == InitToken /\ [][Check]_vars

\* Environment lists of length at most n.
RECURSIVE EnvListsUpTo(_)
EnvListsUpTo(n) ==
    IF n = 0 THEN {<<>>}
    ELSE LET shorter == EnvListsUpTo(n - 1) IN
         shorter \cup {Append(l, e) : l \in {x \in shorter : Len(x) = n - 1},
                                      e \in Environments}

\* The environments argument of refresh_all_tokens: None, or a list.
EnvironmentsArgs == {None} \cup {Some(l) : l \in EnvListsUpTo(MaxEnvs)}

\* One refresh_all_tokens call at a time; its coroutines take their steps in
\* any order the event loop allows.  The failures are those of the
\* credential and of the POST.
RefreshAll ==
    \/ \E envs \in EnvironmentsArgs, force \in BOOLEAN :
          CallRefreshAllTokens(envs, force, 24)
    \/ \E i \in 1..Len(TargetNames), auth \in {"ok", "credential_error"} :
          Start(i, auth)
    \/ \E i \in 1..Len(TargetNames), r \in {"ok", "http_status_error"} :
          Complete(i, r, "ok")
    \/ Return
    \/ Abort

SpecRefreshAll == InitToken /\ [][RefreshAll]_vars

(***************************************************************************)
(* Token manager: properties                                               *)
(***************************************************************************)
\* C17: the token manager never raises: whatever the metadata file holds and
\* whichever of the credential, the POST, the response and the metadata
\* write fails, refresh_token returns a TokenRefreshResult and
\* refresh_all_tokens its list of results.
C17_NeverRaises ==
    (~IsNone(outcome) /\ outcome[1].op \in {"refresh_token", "refresh_all_tokens"})
    => ~outcome[1].raised

\* The stored record of token variable var: unexpired, expired or absent at
\* clock reading t.  A file that is no JSON holds no record.
StoredUnexpired(files, var, t) ==
    /\ var \in DOMAIN files
    /\ files[var].kind = "info"
    /\ files[var].info.expires_at > t

StoredExpired(files, var, t) ==
    /\ var \in DOMAIN files
    /\ files[var].kind = "info"
    /\ files[var].info.expires_at <= t

StoredAbsent(files, var) ==
    var \notin DOMAIN files \/ files[var].kind = "not_json"

RemoteCalls == {"get_credential", "get_azure_token", "post"}

\* C18: a refresh_token with force false for an environment whose stored
\* TokenInfo is unexpired makes no credential and no network call, returns
\* success, and leaves the metadata files and the process environment as
\* they were; with force true, or with the record absent or expired, it goes
\* on to the remote creation: it asks for the credential and, unless that
\* fails, sends the POST.
C18_SkipOnlyWhenUnexpired ==
    [][ \A i \in 1..Len(tasks) :
          (/\ Len(tasks') = Len(tasks)
           /\ tasks[i].pc = "created"
           /\ tasks'[i].pc # "created"
           /\ tasks[i].environment \in DOMAIN Targets
           /\ ~IsNone(Targets[tasks[i].environment].token_env_var))
          => LET var == Targets[tasks[i].environment].token_env_var[1]
                 after == tasks'[i]
             IN /\ (~call.force /\ StoredUnexpired(tokenFiles, var, now))
                   => /\ after.pc = "done"
                      /\ after.result[1].success
                      /\ after.calls \cap RemoteCalls = {}
                      /\ tokenFiles' = tokenFiles
                      /\ environ' = environ
                /\ (call.force \/ StoredAbsent(tokenFiles, var)
                      \/ StoredExpired(tokenFiles, var, now))
                   => /\ "get_credential" \in after.calls
                      /\ \/ after.pc = "awaiting" /\ "post" \in after.calls
                         \/ /\ after.pc = "done"
                            /\ ~after.result[1].success
                            /\ "post" \notin after.calls
      ]_vars

\* C18 witness: a token minted for prod earlier in the session is in the
\* process environment, and a later refresh_token without force has
\* returned success without a new mint.
C18_Witness ==
    /\ ~IsNone(outcome)
    /\ outcome[1].op = "refresh_token"
    /\ ~outcome[1].raised
    /\ outcome[1].results[1].environment = "prod"
    /\ outcome[1].results[1].success
    /\ outcome[1].results[1].message = "still valid, skipping refresh"
    /\ "TOKEN_PROD" \in DOMAIN environ
    /\ now = 1

\* C19: a check_token result that carries hours_remaining has needs_refresh
\* true exactly when hours_remaining <= 0, also when the clock moves on
\* while the check runs; a result for a configured token variable without a
\* stored record has needs_refresh true and no expiry detail.
C19_NeedsRefreshMatchesHours ==
    (~IsNone(outcome) /\ outcome[1].op = "check_token" /\ ~outcome[1].raised)
    => LET r == outcome[1].results[1] IN
       /\ ~IsNone(r.hours_remaining)
            => (r.needs_refresh <=> r.hours_remaining[1] <= 0)
       /\ (r.token_variable # "" /\ IsNone(r.hours_remaining))
            => (r.needs_refresh /\ IsNone(r.expires_at))

\* C20: refresh_all_tokens over a list of N environments returns N results,
\* the i-th for the i-th environment of the list, however the refreshes
\* interleave.
C20_OneResultPerEnvironment ==
    (~IsNone(outcome) /\ outcome[1].op = "refresh_all_tokens")
    => /\ ~outcome[1].raised
       /\ Len(outcome[1].results) = Len(outcome[1].environments)
       /\ \A i \in 1..Len(outcome[1].environments) :
            outcome[1].results[i].environment = outcome[1].environments[i]

\* The token variable of a target that has one.
VarOf(environment) == Targets[environment].token_env_var[1]

\* Coroutine i has ended in this step with a mint: a success that is no skip.
Minted(i) ==
    /\ i \in 1..Len(tasks)
    /\ Len(tasks') = Len(tasks)
    /\ tasks[i].pc = "awaiting"
    /\ tasks'[i].pc = "done"
    /\ tasks'[i].result[1].success

\* Coroutine i has ended in this step with a failure or with the skip of a
\* refresh that was not needed.
FailedOrSkipped(i) ==
    /\ i \in 1..Len(tasks)
    /\ Len(tasks') = Len(tasks)
    /\ tasks[i].pc # "done"
    /\ tasks'[i].pc = "done"
    /\ \/ ~tasks'[i].result[1].success
       \/ tasks'[i].result[1].message = "still valid, skipping refresh"

AnyLifetimes == {-1, 0, 1, 24, 25}

\* The lifetime brought into the range of 1 to 24 hours.
ClampedHours(lifetime_hours) ==
    IF lifetime_hours < 1 THEN 1 ELSE IF lifetime_hours > 24 THEN 24 ELSE lifetime_hours

InitLifetime == InitToken /\ tokenFiles = <<>>

\* Forced refresh_token calls that succeed, with lifetimes of any size.
RefreshLifetime ==
    \/ \E e \in {"dev", "prod"}, l \in AnyLifetimes : CallRefreshToken(e, TRUE, l)
    \/ Start(1, "ok")
    \/ Complete(1, "ok", "ok")
    \/ Return
    \/ Tick

SpecLifetime == InitLifetime /\ [][RefreshLifetime]_vars

\* C22: the POST of a refresh carries lifetime_seconds = 3600 times the
\* requested lifetime clamped to 1..24 hours, and every record a refresh
\* stores expires between 1 and 24 hours after its creation, whatever
\* integer lifetime_hours refresh_token is given.
C22_LifetimeClamped ==
    /\ \A i \in 1..Len(tasks) :
          tasks[i].pc = "awaiting"
          => tasks[i].lifetime_seconds = Some(3600 * ClampedHours(call.lifetime_hours))
    /\ \A v \in DOMAIN tokenFiles :
          tokenFiles[v].kind = "info"
          => (tokenFiles[v].info.expires_at - tokenFiles[v].info.created_at) \in 1..24

(***************************************************************************)
(* Token manager: concurrent refreshes                                     *)
(***************************************************************************)
\* The environment is a target with a token variable.
HasVar(environment) ==
    /\ environment \in DOMAIN Targets
    /\ ~IsNone(Targets[environment].token_env_var)

\* The file and the environment entry of token variable v are the same
\* before and after the step.
EntryUnchanged(v) ==
    /\ (v \in DOMAIN tokenFiles) = (v \in DOMAIN tokenFiles')
    /\ v \in DOMAIN tokenFiles => tokenFiles'[v] = tokenFiles[v]
    /\ (v \in DOMAIN environ) = (v \in DOMAIN environ')
    /\ v \in DOMAIN environ => environ'[v] = environ[v]

\* C23: of two concurrent refreshes for different token variables, neither
\* reads or writes the file or the environment entry of the other, and
\* neither is kept from running to its end by the other: each ends as it
\* would alone.
C23_DifferentVariablesIndependent ==
    [][ \A i, j \in 1..Len(tasks) :
          (/\ HasVar(tasks[i].environment)
           /\ HasVar(tasks[j].environment)
           /\ VarOf(tasks[i].environment) # VarOf(tasks[j].environment))
          => /\ (Len(tasks') = Len(tasks) /\ tasks'[i] # tasks[i])
                   => EntryUnchanged(VarOf(tasks[j].environment))
             /\ tasks[i].pc = "created"
                   => \A c \in {NotJson, NotTokenInfo}, auth \in AuthOutcomes :
                         refresh_token_start(tasks[i].environment, call.force,
                             Put(tokenFiles, VarOf(tasks[j].environment), c), now, auth)
                         = refresh_token_start(tasks[i].environment, call.force,
                                               tokenFiles, now, auth)
             /\ Len(tasks') = 0 => tasks[j].pc = "done"
      ]_vars

(***************************************************************************)
(* Token manager: refreshes followed by checks                             *)
(***************************************************************************)
\* Successful refresh_token calls and check_token calls, starting without
\* metadata files.
MintAndCheck ==
    \/ \E e \in {"dev", "stage", "prod"}, force \in BOOLEAN :
          CallRefreshToken(e, force, 1)
    \/ Start(1, "ok")
    \/ Complete(1, "ok", "ok")
    \/ Return
    \/ \E e \in {"dev", "stage", "prod"} : CheckToken(e)
    \/ Tick

SpecMintCheck == InitLifetime /\ [][MintAndCheck]_vars

\* C24: what check_token and the skip of refresh_token report for an
\* environment rests on a token minted for that environment: a check that
\* reports no need of a refresh, and a refresh that is skipped, find a
\* stored record of a mint for the environment asked about, also when
\* another environment uses the same token variable.
C24_StatePerEnvironment ==
    (/\ ~IsNone(outcome)
     /\ ~outcome[1].raised
     /\ HasVar(outcome[1].environments[1])
     /\ \/ /\ outcome[1].op = "check_token"
           /\ ~outcome[1].results[1].needs_refresh
        \/ /\ outcome[1].op = "refresh_token"
           /\ outcome[1].results[1].message = "still valid, skipping refresh")
    => LET e == outcome[1].environments[1] IN
       /\ VarOf(e) \in DOMAIN tokenFiles
       /\ tokenFiles[VarOf(e)].kind = "info"
       /\ tokenFiles[VarOf(e)].info.environment = e

(***************************************************************************)
(* Token manager: concurrent refreshes of one token variable               *)
(***************************************************************************)
\* refresh_all_tokens calls over two environments, among them dev and
\* stage, which share TOKEN_DEV, and the same environment twice; time
\* passes while the coroutines wait.
RefreshSame ==
    \/ \E envs \in {<<"dev", "stage">>, <<"dev", "dev">>, <<"stage", "prod">>},
          force \in BOOLEAN :
          CallRefreshAllTokens(Some(envs), force, 1)
    \/ \E i \in 1..2, auth \in {"ok", "credential_error"} : Start(i, auth)
    \/ \E i \in 1..2, r \in {"ok", "http_status_error"} : Complete(i, r, "ok")
    \/ Return
    \/ Abort
    \/ Tick

SpecRefreshSame == InitToken /\ [][RefreshSame]_vars

\* Coroutine j refreshes the token variable of coroutine i at the same time:
\* it waits for its response, or has minted already.
ConcurrentOnSameVariable(i, j) ==
    /\ j # i
    /\ HasVar(tasks[j].environment)
    /\ VarOf(tasks[j].environment) = VarOf(tasks[i].environment)
    /\ \/ tasks[j].pc = "awaiting"
       \/ /\ tasks[j].pc = "done"
          /\ tasks[j].result[1].message = "Token refreshed"

\* C26: when refreshes for the same token variable run concurrently and
\* succeed, each mint writes the token value and the record together, so
\* that after every mint, and so after the last, the environment variable
\* and the stored TokenInfo come from the same refresh; nothing but a mint
\* changes either.
C26_LastWriterWinsWhole ==
    [][ /\ \A i \in 1..Len(tasks) :
             (Minted(i) /\ \E j \in 1..Len(tasks) : ConcurrentOnSameVariable(i, j))
             => LET e == tasks[i].environment IN
                /\ environ'[VarOf(e)] = TokenValue(i)
                /\ tokenFiles'[VarOf(e)] =
                      InfoFile(TokenInfo(VarOf(e), e, now, now + call.lifetime_hours,
                                         workspace_url(Targets[e].host)))
        /\ (environ' # environ \/ tokenFiles' # tokenFiles)
             => \E i \in 1..Len(tasks) : Minted(i)
      ]_vars

\* C26 witness: in refresh_all_tokens over dev and stage, which share
\* TOKEN_DEV, both have minted, the refresh of dev last: the variable holds
\* its token value and the record is the one for dev.
C26_Witness ==
    /\ call # NoTokenCall
    /\ call.op = "refresh_all_tokens"
    /\ call.environments = <<"dev", "stage">>
    /\ \A i \in 1..2 : /\ tasks[i].pc = "done"
                       /\ tasks[i].result[1].message = "Token refreshed"
    /\ environ["TOKEN_DEV"] = TokenValue(1)
    /\ tokenFiles["TOKEN_DEV"].info.environment = "dev"

\* C27: check_token reports needs_refresh false, which the check command
\* prints as a valid token, only for an environment of the profile that has
\* a token variable with a stored TokenInfo; never for an environment that
\* is not in the profile or has no token variable.
C27_ValidOnlyWhenStored ==
    (/\ ~IsNone(outcome)
     /\ outcome[1].op = "check_token"
     /\ ~outcome[1].raised
     /\ check_presentation(outcome[1].results[1]) = "success")
    => LET e == outcome[1].environments[1] IN
       /\ HasVar(e)
       /\ VarOf(e) \in DOMAIN tokenFiles
       /\ tokenFiles[VarOf(e)].kind = "info"
       /\ outcome[1].results[1].expires_at = Some(tokenFiles[VarOf(e)].info.expires_at)

\* C28: a refresh_token that ends with success false leaves the process
\* environment and the metadata files exactly as they were, wherever it
\* fails: unknown environment, missing token variable, credential, POST,
\* response without token, metadata write.
C28_FailureChangesNothing ==
    [][ \A i \in 1..Len(tasks) :
          (/\ Len(tasks') = Len(tasks)
           /\ tasks[i].pc # "done"
           /\ tasks'[i].pc = "done"
           /\ ~tasks'[i].result[1].success)
          => (environ' = environ /\ tokenFiles' = tokenFiles)
      ]_vars

(***************************************************************************)
(* Interactive profile editor                                              *)
(*                                                                         *)
(* A profile is its target and the names of its outputs; the               *)
(* configuration of an output plays no part.  The editor functions of      *)
(* brix.modules.dbt.profile.editor follow their description: an add fails  *)
(* on a name that exists, a delete or a change of target on a profile or   *)
(* output that is absent, and delete_output on the current target.         *)
(***************************************************************************)
ProfileNames == {"p", "q"}

\* Names typed for targets and outputs.
OutputNames == {"dev", "prod"}

Profile(target, outputs) == [target |-> target, outputs |-> outputs]

add_profile(ps, name, target, output_name) ==
    IF name \in DOMAIN ps
    THEN [err |-> "ProfileAlreadyExistsError", profiles |-> ps]
    ELSE [err |-> "ok", profiles |-> Put(ps, name, Profile(target, {output_name}))]

add_output(ps, name, output_name) ==
    IF name \notin DOMAIN ps
    THEN [err |-> "ProfileNotFoundError", profiles |-> ps]
    ELSE IF output_name \in ps[name].outputs
    THEN [err |-> "OutputAlreadyExistsError", profiles |-> ps]
    ELSE [err |-> "ok",
          profiles |-> [ps EXCEPT ![name].outputs = @ \cup {output_name}]]

delete_output(ps, name, output_name) ==
    IF name \notin DOMAIN ps
    THEN [err |-> "ProfileNotFoundError", profiles |-> ps]
    ELSE IF output_name \notin ps[name].outputs
    THEN [err |-> "OutputNotFoundError", profiles |-> ps]
    ELSE IF ps[name].target = output_name
    THEN [err |-> "ValueError", profiles |-> ps]
    ELSE [err |-> "ok",
          profiles |-> [ps EXCEPT ![name].outputs = @ \ {output_name}]]

update_profile_target(ps, name, target) ==
    IF name \notin DOMAIN ps
    THEN [err |-> "ProfileNotFoundError", profiles |-> ps]
    ELSE [err |-> "ok", profiles |-> [ps EXCEPT ![name].target = target]]

\* _handle_add_profile: the name, the default target and the name of the
\* initial output are three answers of the user.
HandleAddProfile(name, target, output_name) ==
    /\ profiles' = add_profile(profiles, name, target, output_name).profiles
    /\ UNCHANGED <<editorVars, kept, tokenVars, tree, found>>

\* _handle_add_output for a profile chosen from those that exist.
HandleAddOutput(name, output_name) ==
    /\ name \in DOMAIN profiles
    /\ profiles' = add_output(profiles, name, output_name).profiles
    /\ UNCHANGED <<editorVars, kept, tokenVars, tree, found>>

\* _handle_delete_output for a profile and an output chosen from those that
\* exist.  new_target is the answer to the question for a new target, asked
\* when the output is the current target and there are others: one of the
\* others, or None when the user cancels.
HandleDeleteOutput(name, output_name, new_target) ==
    /\ name \in DOMAIN profiles
    /\ output_name \in profiles[name].outputs
    /\ LET profile == profiles[name]
           other_outputs == profile.outputs \ {output_name}
       IN IF profile.target = output_name
          THEN IF other_outputs = {}
               THEN IsNone(new_target) /\ profiles' = profiles
               ELSE /\ new_target \in {None} \cup {Some(o) : o \in other_outputs}
                    /\ IF IsNone(new_target)
                       THEN profiles' = profiles
                       ELSE LET u == update_profile_target(profiles, name, new_target[1])
                                d == delete_output(u.profiles, name, output_name)
                            IN profiles' = d.profiles
          ELSE /\ IsNone(new_target)
               /\ profiles' = delete_output(profiles, name, output_name).profiles
    /\ UNCHANGED <<editorVars, kept, tokenVars, tree, found>>

\* The target action of _edit_profile_loop: the new target is a text the
\* user types.
EditProfileTarget(name, new_target) ==
    /\ name \in DOMAIN profiles
    /\ profiles' = update_profile_target(profiles, name, new_target).profiles
    /\ UNCHANGED <<editorVars, kept, tokenVars, tree, found>>

EditProfiles ==
    \/ \E n \in ProfileNames, t \in OutputNames, o \in OutputNames :
          HandleAddProfile(n, t, o)
    \/ \E n \in ProfileNames, o \in OutputNames \cup {"ci"} : HandleAddOutput(n, o)
    \/ \E n \in ProfileNames, o \in OutputNames \cup {"ci"},
          t \in {None} \cup {Some(x) : x \in OutputNames \cup {"ci"}} :
          HandleDeleteOutput(n, o, t)
    \/ \E n \in ProfileNames, t \in OutputNames \cup {"qa"} : EditProfileTarget(n, t)

\* The editor starts on a profiles.yml without profiles.
InitProfiles == InitPersist /\ dirExists = TRUE

SpecProfiles == InitProfiles /\ [][EditProfiles]_vars

save_project_write(p, f, dir, write) ==
    LET s == save_project(p, f, dir) IN
    IF s.err = "ok" /\ write = "OSError"
    THEN [err |-> "OSError", file |-> f, dir |-> TRUE]
    ELSE s

\* save_packages(packages, project_path) with the outcome of the write.
save_packages_write(pkgs, f, dir, write) ==
    LET s == save_packages(pkgs, f, dir) IN
    IF s.err = "ok" /\ write = "OSError"
    THEN [err |-> "OSError", file |-> f]
    ELSE s

\* _handle_settings_action(action, project, project_path) with the answer
\* new_value: the handler rebinds project to what update_project_field
\* returned, then saves, and returns project whether the save raised or not.
HandleSettingsAction(action, new_value, write) ==
    /\ action \in EDITABLE_FIELDS
    /\ action # "require_dbt_version" => ~IsNone(new_value)
    /\ new_value # project[action]
    /\ LET r == update_project_field(project, action, new_value)
           s == save_project_write(r.doc, projectFile, dirExists, write)
       IN IF r.err # "ok"
          THEN /\ last' = [op |-> "_handle_settings_action", args |-> <<>>, err |-> r.err]
               /\ UNCHANGED <<project, projectFile, dirExists>>
          ELSE /\ project' = r.doc
               /\ projectFile' = s.file
               /\ dirExists' = s.dir
               /\ last' = [op |-> "_handle_settings_action", args |-> <<>>, err |-> s.err]
    /\ kept' = None
    /\ UNCHANGED <<packages, packagesFile, tokenVars, moreVars>>

\* The add and remove actions of _handle_path_action(field, project,
\* project_path) with the path the user gave.
HandlePathAction(field, action, path, write) ==
    /\ action = "remove" => InList(path, project[field])
    /\ LET r == update_path_field(project, field, action, Str(path))
           s == save_project_write(r.doc, projectFile, dirExists, write)
       IN IF r.err # "ok"
          THEN /\ last' = [op |-> "_handle_path_action", args |-> <<>>, err |-> r.err]
               /\ UNCHANGED <<project, projectFile, dirExists>>
          ELSE /\ project' = r.doc
               /\ projectFile' = s.file
               /\ dirExists' = s.dir
               /\ last' = [op |-> "_handle_path_action", args |-> <<>>, err |-> s.err]
    /\ kept' = None
    /\ UNCHANGED <<packages, packagesFile, tokenVars, moreVars>>

\* The add_hub action of _handle_package_action(action, packages,
\* project_path).  The handler catches PackageAlreadyExistsError alone.
HandlePackageAction(package_name, version, write) ==
    /\ LET r == add_hub_package(packages, package_name, version)
           s == save_packages_write(r.pkgs, packagesFile, dirExists, write)
       IN IF r.err # "ok"
          THEN /\ last' = [op |-> "_handle_package_action", args |-> <<>>, err |-> r.err]
               /\ UNCHANGED <<packages, packagesFile>>
          ELSE /\ packages' = r.pkgs
               /\ packagesFile' = s.file
               /\ last' = [op |-> "_handle_package_action", args |-> <<>>, err |-> s.err]
    /\ kept' = None
    /\ UNCHANGED <<project, projectFile, dirExists, tokenVars, moreVars>>

\* run_interactive_edit has loaded the project and its packages from disk.
InitInteractive ==
    /\ InitLoad
    /\ projectFile = Some(Mapping([name |-> Some(<<"a">>), profile |-> Some("default")]))
    /\ project = load_project(projectFile).doc
    /\ packagesFile = None
    /\ packages = <<>>

InteractiveEdit ==
    \/ \E w \in WriteOutcomes : HandleSettingsAction("name", Some(<<"b">>), w)
    \/ \E a \in {"profile", "require_dbt_version"}, v \in {Some("v"), None},
          w \in WriteOutcomes :
          HandleSettingsAction(a, v, w)
    \/ \E a \in {"add", "remove"}, w \in WriteOutcomes :
          HandlePathAction("model_paths", a, "staging", w)
    \/ \E w \in WriteOutcomes : HandlePackageAction("x", "v1", w)

SpecInteractive == InitInteractive /\ [][InteractiveEdit]_vars

\* C29: after every action the interactive project editor handles, the
\* document in memory is the content last written to disk: either the
\* action changed neither, or the file now holds the dump of the document
\* in memory; the same for the package list and packages.yml.
C29_MemoryEqualsDisk ==
    [][ /\ \/ (project' = project /\ projectFile' = projectFile)
           \/ projectFile' = Some(to_yaml(project'))
        /\ \/ (packages' = packages /\ packagesFile' = packagesFile)
           \/ packagesFile' = Some(packages_to_yaml(packages'))
      ]_vars

(***************************************************************************)
(* Project discovery: find_dbt_projects                                    *)
(*                                                                         *)
(* A path is the sequence of its components from the filesystem root.      *)
(* tree holds the directories with a dbt_project.yml in them.              *)
(***************************************************************************)
EXCLUDE_DIRS ==
    {".venv", "venv", ".env", "node_modules", "dbt_packages", "target", ".git",
     "__pycache__", ".mypy_cache", ".pytest_cache", ".ruff_cache"}

\* The deepest max_depth passed.
MaxDepth == 2

\* The names that occur in paths, in the order Python compares strings.
NameOrder == <<".venv", "a", "b", "dbt_project.yml", "gone", "home", "target">>

Rank(name) == CHOOSE i \in 1..Len(NameOrder) : NameOrder[i] = name

\* p < q for two paths: component by component, a proper prefix first.
RECURSIVE PathLess(_, _)
PathLess(p, q) ==
    IF q = <<>> THEN FALSE
    ELSE IF p = <<>> THEN TRUE
    ELSE IF Head(p) # Head(q) THEN Rank(Head(p)) < Rank(Head(q))
    ELSE PathLess(Tail(p), Tail(q))

\* projects.sort(): the paths of S in ascending order.
RECURSIVE SortPaths(_)
SortPaths(S) ==
    IF S = {} THEN <<>>
    ELSE LET least == CHOOSE p \in S : \A q \in S \ {p} : PathLess(p, q)
         IN <<least>> \o SortPaths(S \ {least})

IsPrefix(p, q) == Len(p) <= Len(q) /\ SubSeq(q, 1, Len(p)) = p

\* search_root.exists(): /home is there, and so is every directory on the
\* way to a project.
path_exists(files, path) ==
    path = <<"home">> \/ \E d \in files : IsPrefix(path, d)

\* _should_exclude(path): some component of the path is an excluded name.
should_exclude(path) == \E i \in 1..Len(path) : path[i] \in EXCLUDE_DIRS

\* find_dbt_projects(root, max_depth) on the directories files.
find_dbt_projects(files, root, max_depth) ==
    IF ~path_exists(files, root) THEN <<>>
    ELSE LET globbed == {d \o <<"dbt_project.yml">> : d \in {e \in files : IsPrefix(root, e)}}
             depth(project_file) == (Len(project_file) - Len(root)) - 1
             projects == {f \in globbed : /\ ~(depth(f) > max_depth)
                                          /\ ~should_exclude(f)}
         IN SortPaths(projects)

\* Search roots: /home, two directories below it, one that is not there.
Roots == {<<"home">>, <<"home", "target">>, <<"home", "a">>, <<"gone">>}

\* Directories that may hold a project.
ProjectDirs ==
    {<<"home">>, <<"home", "a">>, <<"home", "a", "b">>, <<"home", "a", "b", "a">>,
     <<"home", "a", ".venv">>, <<"home", "target">>, <<"home", "target", "a">>,
     <<"home", "b", ".venv", "a">>}

FindDbtProjects(root, max_depth) ==
    /\ found' = Some([root |-> root, max_depth |-> max_depth,
                      result |-> find_dbt_projects(tree, root, max_depth)])
    /\ UNCHANGED <<editorVars, kept, tokenVars, profiles, tree>>

\* The projects on disk are any of ProjectDirs.
InitFind ==
    /\ project = from_yaml(Mapping([name |-> Some(<<"a">>),
                                    profile |-> Some("default")])).doc
    /\ projectFile = None
    /\ packages = <<>>
    /\ packagesFile = None
    /\ dirExists = TRUE
    /\ last = NoCall
    /\ kept = None
    /\ tokenFiles = <<>>
    /\ environ = <<>>
    /\ now = 0
    /\ call = NoTokenCall
    /\ tasks = <<>>
    /\ outcome = None
    /\ profiles = <<>>
    /\ tree \in SUBSET ProjectDirs
    /\ found = None

Find == \E root \in Roots, max_depth \in 0..MaxDepth : FindDbtProjects(root, max_depth)

SpecFind == InitFind /\ [][Find]_vars

\* The directories below root, at most max_depth levels down, with no
\* excluded name among the components from root to the file.
ProjectsUnder(files, root, max_depth) ==
    {d \in files :
        /\ IsPrefix(root, d)
        /\ Len(d) - Len(root) <= max_depth
        /\ \A i \in (Len(root) + 1)..Len(d) : d[i] \notin EXCLUDE_DIRS}

\* C30: find_dbt_projects(root, max_depth) returns, in ascending order of
\* path, exactly the dbt_project.yml files whose directory is at most
\* max_depth levels below root and whose path from root down has no
\* excluded component, whatever the directories above root are called; a
\* root that does not exist gives the empty list.
C30_FindsExactlyTheProjects ==
    ~IsNone(found)
    => LET r == found[1].result
           expected == IF path_exists(tree, found[1].root)
                       THEN ProjectsUnder(tree, found[1].root, found[1].max_depth)
                       ELSE {}
       IN /\ {r[i] : i \in 1..Len(r)} = {d \o <<"dbt_project.yml">> : d \in expected}
          /\ Len(r) = Cardinality(expected)
          /\ \A i \in 1..(Len(r) - 1) : PathLess(r[i], r[i + 1])
====
